---- MODULE Spec2Model ----
(***************************************************************************)
(* Block-level recursive-descent parser for reStructuredText.             *)
(* A line is a sequence of one-character strings; a text is a sequence of  *)
(* lines (the result of split(/\r?\n/)).  The line cursor is the pair      *)
(* (lines, currentLineIndex), currentLineIndex counted from 0 as in the    *)
(* source.                                                                 *)
(***************************************************************************)
EXTENDS Integers, Sequences, FiniteSets, TLC

VARIABLES lines, currentLineIndex, children, starts, pc, iter, last, calls

vars == <<lines, currentLineIndex, children, starts, pc, iter, last, calls>>

----------------------------------------------------------------------------
(* Bounds of the model.                                                    *)

MaxLines == 3
MaxBody == 4

----------------------------------------------------------------------------
(* Characters and strings.                                                 *)

Lower == {"a","b","c","d","e","f","g","h","i","j","k","l","m",
          "n","o","p","q","r","s","t","u","v","w","x","y","z"}

Upper == {"A","B","C","D","E","F","G","H","I","J","K","L","M",
          "N","O","P","Q","R","S","T","U","V","W","X","Y","Z"}

Digit == {"0","1","2","3","4","5","6","7","8","9"}

IsSpace(c) == c \in {" ", "\t"}

\* the element of a one-element set: "const x = e" evaluates e once
TheOne(S) == CHOOSE x \in S : TRUE

Min(a, b) == IF a < b THEN a ELSE b

Max(a, b) == IF a < b THEN b ELSE a

isBlank(line) == \A k \in 1..Len(line) : IsSpace(line[k])

getIndentation(line) ==
    IF isBlank(line) THEN Len(line)
    ELSE (CHOOSE k \in 1..Len(line) :
             /\ ~IsSpace(line[k])
             /\ \A j \in 1..(k-1) : IsSpace(line[j])) - 1

LastInk(line) ==
    CHOOSE k \in 1..Len(line) :
        /\ ~IsSpace(line[k])
        /\ \A j \in (k+1)..Len(line) : IsSpace(line[j])

trim(line) ==
    IF isBlank(line) THEN <<>>
    ELSE SubSeq(line, getIndentation(line) + 1, LastInk(line))

substring(s, from) == SubSeq(s, Max(from, 0) + 1, Len(s))

startsWith(s, p) == Len(s) >= Len(p) /\ SubSeq(s, 1, Len(p)) = p

indexOf(s, p) ==
    LET hits == {k \in 1..(Len(s) - Len(p) + 1) : SubSeq(s, k, k + Len(p) - 1) = p}
    IN  IF hits = {} THEN -1
        ELSE (CHOOSE k \in hits : \A j \in hits : k <= j) - 1

sameChar(s) == \A k \in 1..Len(s) : s[k] = s[1]

----------------------------------------------------------------------------
(* Directive names, as the source spells them.                             *)

\* the admonition names without "tip"
ADMONITION_TYPES_WithoutTip ==
    {<<"n","o","t","e">>, <<"a","t","t","e","n","t","i","o","n">>,
     <<"c","a","u","t","i","o","n">>, <<"d","a","n","g","e","r">>,
     <<"e","r","r","o","r">>, <<"h","i","n","t">>,
     <<"i","m","p","o","r","t","a","n","t">>, <<"w","a","r","n","i","n","g">>}

\* the admonition names and "topic"
ADMONITION_TYPES_WithTopic ==
    {<<"n","o","t","e">>, <<"a","t","t","e","n","t","i","o","n">>,
     <<"c","a","u","t","i","o","n">>, <<"d","a","n","g","e","r">>,
     <<"e","r","r","o","r">>, <<"h","i","n","t">>,
     <<"i","m","p","o","r","t","a","n","t">>, <<"t","i","p">>,
     <<"w","a","r","n","i","n","g">>, <<"t","o","p","i","c">>}

ADMONITION_TYPES ==
    {<<"n","o","t","e">>,
     <<"a","t","t","e","n","t","i","o","n">>,
     <<"c","a","u","t","i","o","n">>,
     <<"d","a","n","g","e","r">>,
     <<"e","r","r","o","r">>,
     <<"h","i","n","t">>,
     <<"i","m","p","o","r","t","a","n","t">>,
     <<"t","i","p">>,
     <<"w","a","r","n","i","n","g">>}

N_button_link == <<"b","u","t","t","o","n","-","l","i","n","k">>

N_button_ref == <<"b","u","t","t","o","n","-","r","e","f">>

N_code == <<"c","o","d","e">>

N_code_block == <<"c","o","d","e","-","b","l","o","c","k">>

N_parsed_literal == <<"p","a","r","s","e","d","-","l","i","t","e","r","a","l">>

N_grid == <<"g","r","i","d">>

N_grid_item == <<"g","r","i","d","-","i","t","e","m">>

N_grid_item_card == <<"g","r","i","d","-","i","t","e","m","-","c","a","r","d">>

N_dropdown == <<"d","r","o","p","d","o","w","n">>

N_card == <<"c","a","r","d">>

N_image == <<"i","m","a","g","e">>

N_figure == <<"f","i","g","u","r","e">>

N_container == <<"c","o","n","t","a","i","n","e","r">>

N_tabs == <<"t","a","b","s">>

N_tab == <<"t","a","b">>

N_group_tab == <<"g","r","o","u","p","-","t","a","b">>

N_code_tab == <<"c","o","d","e","-","t","a","b">>

N_list_table == <<"l","i","s","t","-","t","a","b","l","e">>

N_flat_table == <<"f","l","a","t","-","t","a","b","l","e">>

N_csv_table == <<"c","s","v","-","t","a","b","l","e">>

N_comment == <<"c","o","m","m","e","n","t">>

N_reference == <<"r","e","f","e","r","e","n","c","e">>

N_substitution == <<"s","u","b","s","t","i","t","u","t","i","o","n">>

----------------------------------------------------------------------------
(* The regular expressions of the construct parsers.                       *)

DirectiveNameChar(c) == c \in Lower \cup Upper \cup Digit \cup {"-", "_"}

AdmonitionNameChar(c) == c \in Lower \cup Upper \cup {"-"}

TableOptionChar(c) == ~IsSpace(c) /\ c # ":"

GridOptionChar(c) == c # ":"

\* The pattern ^\s*\.\.\s+ : the 1-based position of the first character after
\* the white space that follows the two dots, or 0 when the line does not match.
afterDots(line) ==
    LET i == getIndentation(line)
        n == Len(line)
    IN  IF n >= i + 3 /\ line[i+1] = "." /\ line[i+2] = "." /\ IsSpace(line[i+3])
        THEN CHOOSE p \in (i+4)..(n+1) :
                 /\ \A j \in (i+4)..(p-1) : IsSpace(line[j])
                 /\ (p = n + 1 \/ ~IsSpace(line[p]))
        ELSE 0

(* The end of the maximal run of characters of a class that starts at p    *)
(* (p - 1 when the run is empty).                                          *)
runEnd(line, p, InClass(_)) ==
    CHOOSE e \in (p-1)..Len(line) :
        /\ \A j \in p..e : InClass(line[j])
        /\ (e = Len(line) \/ ~InClass(line[e+1]))

\* The pattern ^\s*\.\.\s+(<class>+)::(.*)$
directiveMatch(line, InClass(_)) ==
    LET p == afterDots(line)
        n == Len(line)
        e == runEnd(line, p, InClass)
    IN  IF p = 0 THEN [ok |-> FALSE]
        ELSE IF e >= p /\ e + 2 <= n /\ line[e+1] = ":" /\ line[e+2] = ":"
             THEN [ok |-> TRUE, name |-> SubSeq(line, p, e),
                   rest |-> SubSeq(line, e + 3, n)]
             ELSE [ok |-> FALSE]

\* The pattern ^\s*\.\.\s+<name>::(.*)$ for a literal name.
literalMatch(line, name) ==
    LET p == afterDots(line)
        t == SubSeq(line, p, Len(line))
    IN  IF p # 0 /\ startsWith(t, name \o <<":", ":">>)
        THEN [ok |-> TRUE, name |-> name, rest |-> substring(t, Len(name) + 2)]
        ELSE [ok |-> FALSE]

\* The pattern ^\s*\.\.\s+<name>::\s*(.+)$ : the argument holds a character.
literalMatchArg(line, name) ==
    LET m == literalMatch(line, name)
    IN  IF m.ok /\ Len(m.rest) >= 1 THEN m ELSE [ok |-> FALSE]

\* The pattern ^\s+:(<class>+):\s*(.*)$
optionMatch(line, InClass(_)) ==
    LET i == getIndentation(line)
        n == Len(line)
        e == runEnd(line, i + 2, InClass)
    IN  IF i >= 1 /\ n >= i + 1 /\ line[i+1] = ":"
           /\ e >= i + 2 /\ e + 1 <= n /\ line[e+1] = ":"
        THEN [ok |-> TRUE, key |-> SubSeq(line, i + 2, e),
              value |-> trim(SubSeq(line, e + 2, n))]
        ELSE [ok |-> FALSE]

isOptionLine(line) == optionMatch(line, DirectiveNameChar).ok

----------------------------------------------------------------------------
(* The line cursor (ParserState), as functions of (lines, index).          *)

hasMoreLines(ls, i) == i < Len(ls)

\* peekLine(offset) is not null
hasLine(ls, i, offset) == i + offset < Len(ls)

peekLine(ls, i, offset) == ls[i + offset + 1]

\* the JavaScript test "if (line)": neither null nor the empty string
truthy(ls, i, offset) == hasLine(ls, i, offset) /\ peekLine(ls, i, offset) # <<>>

\* "nextLine && nextLine.trim() === ''": an empty string is falsy
isBlankTruthy(line) == line # <<>> /\ isBlank(line)

\* The index reached by "while (hasMoreLines() && P(peekLine())) consumeLine()".
skipWhile(ls, i, P(_)) ==
    CHOOSE j \in i..Max(i, Len(ls)) :
        /\ \A k \in (i+1)..j : P(ls[k])
        /\ (j >= Len(ls) \/ ~P(ls[j+1]))

\* lines[from .. to-1], indices counted from 0
slice(ls, from, to) == SubSeq(ls, from + 1, to)

dropTrailingBlank(ls) ==
    IF \A k \in 1..Len(ls) : isBlank(ls[k]) THEN <<>>
    ELSE SubSeq(ls, 1, CHOOSE e \in 1..Len(ls) :
                          /\ ~isBlank(ls[e])
                          /\ \A k \in (e+1)..Len(ls) : isBlank(ls[k]))

dropLeadingBlank(ls) ==
    IF \A k \in 1..Len(ls) : isBlank(ls[k]) THEN <<>>
    ELSE SubSeq(ls, CHOOSE b \in 1..Len(ls) :
                       /\ ~isBlank(ls[b])
                       /\ \A k \in 1..(b-1) : isBlank(ls[k]), Len(ls))

\* minimum indentation of the non-blank lines; -1 stands for Infinity
\* the indentation of the first non-blank line in place of the least one
minIndentOfFirst(ls) ==
    LET ink == {k \in 1..Len(ls) : ~isBlank(ls[k])}
    IN  IF ink = {} THEN -1
        ELSE getIndentation(ls[CHOOSE k \in ink : \A j \in ink : k <= j])

minIndent(ls) ==
    LET ink == {k \in 1..Len(ls) : ~isBlank(ls[k])}
    IN  IF ink = {} THEN -1
        ELSE getIndentation(ls[CHOOSE k \in ink :
                 \A j \in ink : getIndentation(ls[k]) <= getIndentation(ls[j])])

\* dedent of AdmonitionParser, ContainerParser, CardParser, DropdownParser,
\* ButtonParser, CodeBlockParser, ImageParser and TabsParser
dedent(ls) ==
    LET m == minIndent(ls)
    IN  IF m = -1 \/ m = 0 THEN ls
        ELSE [k \in 1..Len(ls) |->
                 IF isBlank(ls[k]) THEN <<>> ELSE substring(ls[k], m)]

\* dedent of DirectiveParser: blank lines become empty also when minIndent is 0
dedentDirective(ls) ==
    LET m == minIndent(ls)
    IN  IF m = -1 THEN ls
        ELSE [k \in 1..Len(ls) |->
                 IF isBlank(ls[k]) THEN <<>> ELSE substring(ls[k], m)]

\* dedent of TableDirectiveParser: blank lines are kept as they are
dedentTable(ls) ==
    LET m == minIndent(ls)
    IN  IF m = -1 \/ m = 0 THEN ls
        ELSE [k \in 1..Len(ls) |->
                 IF isBlank(ls[k]) THEN ls[k] ELSE substring(ls[k], m)]

\* dedent of GridParser
dedentGrid(ls) ==
    LET m == minIndent(ls)
    IN  IF m = -1 THEN ls
        ELSE [k \in 1..Len(ls) |->
                 IF isBlank(ls[k]) THEN ls[k] ELSE substring(ls[k], m)]

RECURSIVE joinWith(_, _)
\* lines.join(sep), the lines being strings
joinWith(ls, sep) ==
    IF Len(ls) = 0 THEN <<>>
    ELSE IF Len(ls) = 1 THEN ls[1]
    ELSE ls[1] \o sep \o joinWith(Tail(ls), sep)

RECURSIVE splitWords(_)
\* s.split(/\s+/) of a trimmed, non-empty string
splitWords(s) ==
    IF \A k \in 1..Len(s) : ~IsSpace(s[k]) THEN <<s>>
    ELSE LET b == CHOOSE k \in 1..Len(s) :
                      IsSpace(s[k]) /\ \A j \in 1..(k-1) : ~IsSpace(s[j])
         IN  <<SubSeq(s, 1, b - 1)>> \o splitWords(substring(s, b - 1 + getIndentation(substring(s, b - 1))))

\* argsString ? argsString.split(/\s+/) : []
splitArgs(rest) == IF trim(rest) = <<>> THEN <<>> ELSE splitWords(trim(rest))

\* The options object built by a run of option lines ls[i+1 .. j]: the last
\* occurrence of a key wins.
optionsOf(ls, i, j, InClass(_)) ==
    LET ms   == [k \in (i+1)..j |-> optionMatch(ls[k], InClass)]
        keys == {ms[k].key : k \in (i+1)..j}
    IN  [key \in keys |->
            ms[CHOOSE k \in (i+1)..j :
                   /\ ms[k].key = key
                   /\ \A k2 \in (k+1)..j : ms[k2].key # key].value]

\* "if (Object.keys(options).length > 0) node.options = options"
\* a node that carries its options even when there are none
withOptionsAlways(node, options) == [options |-> options] @@ node

withOptions(node, options) ==
    IF DOMAIN options = {} THEN node ELSE [options |-> options] @@ node

None == [type |-> "none"]

\* What a parser call gives: the node (None for null), the cursor index after
\* the call, and st: "ok" when the call returns, "hang" when a parse loop
\* started inside it never ends, "throw" when it raises an Error.
NoMatch(i) == [node |-> None, idx |-> i, st |-> "ok"]

Matched(node, i, st) == [node |-> node, idx |-> i, st |-> st]

\* new ParserState(text); new BlockParser(subState).parse(): the children of
\* the sub-document and whether the parse returns.
RECURSIVE ParseDocument(_)

EmptyDoc == [children |-> <<>>, st |-> "ok"]

RECURSIVE TextSize(_)
\* the length of a text: its characters and one line break for each line
TextSize(ls) ==
    IF ls = <<>> THEN 0 ELSE Len(ls[1]) + 1 + TextSize(Tail(ls))

\* A construct parser of the parse of doc starts a sub-parse of text on a
\* cursor of its own. The status "notShorter" marks a sub-parse whose text
\* is not strictly shorter than doc; such a sub-parse is not followed.
subParse(doc, text) ==
    IF TextSize(text) < TextSize(doc) THEN ParseDocument(text)
    ELSE [children |-> <<>>, st |-> "notShorter"]

----------------------------------------------------------------------------
(* HeadingParser                                                           *)

OVERLINE_CHARS == ("#" :> 1) @@ ("*" :> 2)

\* the levels of "=" and "-" exchanged
UNDERLINE_CHARS_Exchanged ==
    ("=" :> 4) @@ ("-" :> 3) @@ ("^" :> 5) @@ ("\"" :> 6) @@ ("#" :> 1) @@ ("*" :> 2)

UNDERLINE_CHARS ==
    ("=" :> 3) @@ ("-" :> 4) @@ ("^" :> 5) @@ ("\"" :> 6) @@ ("#" :> 1) @@ ("*" :> 2)

isUnderline(line) ==
    LET trimmed == trim(line)
    IN  IF Len(trimmed) < 1 THEN [ok |-> FALSE]
        ELSE IF trimmed[1] \notin DOMAIN UNDERLINE_CHARS THEN [ok |-> FALSE]
        ELSE IF ~sameChar(trimmed) THEN [ok |-> FALSE]
        ELSE [ok |-> TRUE, char |-> trimmed[1], length |-> Len(trimmed)]

isOverline(line) ==
    LET result == isUnderline(line)
    IN  IF ~result.ok THEN [ok |-> FALSE]
        ELSE IF result.char \notin DOMAIN OVERLINE_CHARS THEN [ok |-> FALSE]
        ELSE [ok |-> TRUE, char |-> result.char, level |-> OVERLINE_CHARS[result.char]]

HeadingNode(level, title) == [type |-> "heading", level |-> level, title |-> title]

HeadingParser(ls, i) ==
    IF ~truthy(ls, i, 0) \/ ~truthy(ls, i, 1) THEN NoMatch(i)
    ELSE
    LET currentLine    == peekLine(ls, i, 0)
        nextLine       == peekLine(ls, i, 1)
        overlineResult == isOverline(currentLine)
    IN  IF overlineResult.ok
        THEN IF ~truthy(ls, i, 2) THEN NoMatch(i)
             ELSE
             LET titleLine       == peekLine(ls, i, 1)
                 underlineResult == isUnderline(peekLine(ls, i, 2))
             IN  IF ~underlineResult.ok THEN NoMatch(i)
                 ELSE IF overlineResult.char # underlineResult.char THEN NoMatch(i)
                 ELSE IF underlineResult.length < Len(trim(titleLine)) THEN NoMatch(i)
                 ELSE Matched(HeadingNode(overlineResult.level, trim(titleLine)),
                              skipWhile(ls, i + 3, isBlankTruthy), "ok")
        ELSE
        LET underlineResult == isUnderline(nextLine)
        IN  IF ~underlineResult.ok THEN NoMatch(i)
            ELSE IF underlineResult.length < Len(trim(currentLine)) THEN NoMatch(i)
            ELSE IF UNDERLINE_CHARS[underlineResult.char] < 3 THEN NoMatch(i)
            ELSE Matched(HeadingNode(UNDERLINE_CHARS[underlineResult.char], trim(currentLine)),
                         skipWhile(ls, i + 2, isBlankTruthy), "ok")

----------------------------------------------------------------------------
(* Constructs with options and an indented body                            *)

\* a body collection that stops at the first blank line as well
bodyEndAtBlank(ls, k, directiveIndent) ==
    LET inBody(l) == ~isBlank(l) /\ getIndentation(l) > directiveIndent
    IN  skipWhile(ls, k, inBody)

\* "while (...) { blank: push, consume; indent > directiveIndent: push,
\* consume; else break }": the index where body collection stops
\* a body that also takes the lines as indented as the opening line
bodyEndNotDeeper(ls, k, directiveIndent) ==
    LET inBody(l) == isBlank(l) \/ getIndentation(l) >= directiveIndent
    IN  skipWhile(ls, k, inBody)

bodyEnd(ls, k, directiveIndent) ==
    LET inBody(l) == isBlank(l) \/ getIndentation(l) > directiveIndent
    IN  skipWhile(ls, k, inBody)

\* options, skipped blank lines and body lines after a consumed opening line
indentedBlock(ls, i, directiveIndent) ==
    LET j == skipWhile(ls, i, isOptionLine)
        k == skipWhile(ls, j, isBlankTruthy)
        e == bodyEnd(ls, k, directiveIndent)
    IN  [options |-> optionsOf(ls, i, j, DirectiveNameChar),
         bodyLines |-> dropTrailingBlank(slice(ls, k, e)),
         idx |-> e]

\* a body parse handed the whole text of its parser instead of the body
bodyChildrenOfWholeText(ls, bodyLines) ==
    IF Len(bodyLines) > 0 THEN subParse(ls, ls) ELSE EmptyDoc

\* "if (bodyLines.length > 0) children = parse(dedent(bodyLines)).children"
bodyChildren(ls, bodyLines) ==
    IF Len(bodyLines) > 0 THEN subParse(ls, dedent(bodyLines)) ELSE EmptyDoc

AdmonitionParser(ls, i) ==
    IF ~truthy(ls, i, 0) THEN NoMatch(i)
    ELSE
    LET line  == peekLine(ls, i, 0)
        match == directiveMatch(line, AdmonitionNameChar)
    IN  IF ~match.ok THEN NoMatch(i)
        ELSE IF match.name \notin ADMONITION_TYPES THEN NoMatch(i)
        ELSE
        LET b   == indentedBlock(ls, i + 1, getIndentation(line))
        IN  TheOne({
            Matched(withOptions([type |-> "admonition", kind |-> match.name,
                                 children |-> sub.children], b.options),
                    b.idx, sub.st)
        : sub \in {bodyChildren(ls, b.bodyLines)} })

ContainerParser(ls, i) ==
    IF ~truthy(ls, i, 0) THEN NoMatch(i)
    ELSE
    LET line  == peekLine(ls, i, 0)
        match == literalMatch(line, N_container)
    IN  IF ~match.ok THEN NoMatch(i)
        ELSE
        LET b   == indentedBlock(ls, i + 1, getIndentation(line))
        IN  TheOne({
            Matched(withOptions([type |-> "container", classes |-> splitArgs(match.rest),
                                 children |-> sub.children], b.options),
                    b.idx, sub.st)
        : sub \in {bodyChildren(ls, b.bodyLines)} })

CardParser(ls, i) ==
    IF ~truthy(ls, i, 0) THEN NoMatch(i)
    ELSE
    LET line  == peekLine(ls, i, 0)
        match == literalMatch(line, N_card)
    IN  IF ~match.ok THEN NoMatch(i)
        ELSE
        LET b    == indentedBlock(ls, i + 1, getIndentation(line))
        IN  TheOne({
        LET card == [type |-> "card", children |-> sub.children]
            node == IF trim(match.rest) # <<>>
                    THEN [title |-> trim(match.rest)] @@ card ELSE card
        IN  Matched(withOptions(node, b.options), b.idx, sub.st)
        : sub \in {bodyChildren(ls, b.bodyLines)} })

DropdownParser(ls, i) ==
    IF ~truthy(ls, i, 0) THEN NoMatch(i)
    ELSE
    LET line  == peekLine(ls, i, 0)
        match == literalMatchArg(line, N_dropdown)
    IN  IF ~match.ok THEN NoMatch(i)
        ELSE
        LET b   == indentedBlock(ls, i + 1, getIndentation(line))
        IN  TheOne({
            Matched(withOptions([type |-> "dropdown", title |-> trim(match.rest),
                                 children |-> sub.children], b.options),
                    b.idx, sub.st)
        : sub \in {bodyChildren(ls, b.bodyLines)} })

ButtonParser(ls, i) ==
    IF ~truthy(ls, i, 0) THEN NoMatch(i)
    ELSE
    LET line            == peekLine(ls, i, 0)
        buttonLinkMatch == literalMatchArg(line, N_button_link)
        buttonRefMatch  == literalMatchArg(line, N_button_ref)
    IN  IF ~buttonLinkMatch.ok /\ ~buttonRefMatch.ok THEN NoMatch(i)
        ELSE
        LET match  == IF buttonLinkMatch.ok THEN buttonLinkMatch ELSE buttonRefMatch
            b      == indentedBlock(ls, i + 1, getIndentation(line))
            text   == trim(joinWith(dedent(b.bodyLines), <<" ">>))
            button == [type |-> IF buttonLinkMatch.ok THEN "button-link" ELSE "button-ref",
                       target |-> trim(match.rest), text |-> text]
        IN  Matched(withOptions(button, b.options), b.idx, "ok")

CodeBlockParser(ls, i) ==
    IF ~truthy(ls, i, 0) THEN NoMatch(i)
    ELSE
    LET line               == peekLine(ls, i, 0)
        codeMatch          == literalMatch(line, N_code)
        codeBlockMatch     == literalMatch(line, N_code_block)
        parsedLiteralMatch == literalMatch(line, N_parsed_literal)
    IN  IF ~codeMatch.ok /\ ~codeBlockMatch.ok /\ ~parsedLiteralMatch.ok THEN NoMatch(i)
        ELSE
        LET b    == indentedBlock(ls, i + 1, getIndentation(line))
            code == [type |-> "code-block", content |-> dedent(b.bodyLines),
                     parsed |-> parsedLiteralMatch.ok]
            node == IF codeBlockMatch.ok /\ trim(codeBlockMatch.rest) # <<>>
                    THEN [language |-> trim(codeBlockMatch.rest)] @@ code ELSE code
        IN  Matched(withOptions(node, b.options), b.idx, "ok")

\* caption and legend of a figure: the body up to and after its first blank line
figureText(ls) ==
    joinWith(SelectSeq([k \in 1..Len(ls) |-> trim(ls[k])], LAMBDA l : l # <<>>), <<" ">>)

ImageParser(ls, i) ==
    IF ~truthy(ls, i, 0) THEN NoMatch(i)
    ELSE
    LET line        == peekLine(ls, i, 0)
        imageMatch  == literalMatchArg(line, N_image)
        figureMatch == literalMatchArg(line, N_figure)
    IN  IF ~imageMatch.ok /\ ~figureMatch.ok THEN NoMatch(i)
        ELSE
        LET j       == skipWhile(ls, i + 1, isOptionLine)
            options == optionsOf(ls, i + 1, j, DirectiveNameChar)
        IN  IF imageMatch.ok
            THEN Matched(withOptions([type |-> "image", uri |-> trim(imageMatch.rest)],
                                     options), j, "ok")
            ELSE
            LET k       == skipWhile(ls, j, isBlankTruthy)
                e       == bodyEnd(ls, k, getIndentation(line))
                content == dropTrailingBlank(dropLeadingBlank(dedent(slice(ls, k, e))))
                blanks  == {n \in 1..Len(content) : isBlank(content[n])}
                cut     == IF blanks = {} THEN Len(content) + 1
                           ELSE CHOOSE n \in blanks : \A n2 \in blanks : n <= n2
            IN  Matched(withOptions([type |-> "figure", uri |-> trim(figureMatch.rest),
                                     caption |-> figureText(SubSeq(content, 1, cut - 1)),
                                     legend |-> figureText(SubSeq(content, cut, Len(content)))],
                                    options), e, "ok")

----------------------------------------------------------------------------
(* DirectiveParser                                                         *)

\* The index reached by a loop whose test reads the cursor at index k.
skipWhileAt(ls, i, P(_)) ==
    CHOOSE j \in i..Max(i, Len(ls)) :
        /\ \A k \in i..(j-1) : P(k)
        /\ (j >= Len(ls) \/ ~P(j))

DirectiveNode(name, args, options, body) ==
    [type |-> "directive", name |-> name, args |-> args,
     options |-> options, body |-> body]

\* the grave accent U+0060, which a TLA+ string cannot hold, as a token
BackQuote == "U+0060"

\* name and args of a comment, reference, substitution or "k: v" line
commentForm(content) ==
    LET n == Len(content)
    IN  IF startsWith(content, <<"_">>)
        THEN LET tick  == n >= 2 /\ content[2] = BackQuote
                 close == {k \in 4..n : content[k] = BackQuote /\ \A j \in 3..(k-1) : content[j] # BackQuote}
                 qend  == IF tick /\ close # {} THEN CHOOSE k \in close : TRUE ELSE 0
                 colon == indexOf(content, <<":">>) + 1
                 stop  == IF qend # 0 /\ qend < n /\ content[qend + 1] = ":" THEN qend + 1
                          ELSE IF colon >= 3 THEN colon ELSE 0
             IN  IF stop # 0
                 THEN LET rest == substring(content, stop)
                          tail == substring(rest, getIndentation(rest))
                      IN  [name |-> N_reference,
                           args |-> <<SubSeq(content, 2, stop - 1)>>
                                    \o (IF tail # <<>> THEN <<tail>> ELSE <<>>)]
                 ELSE [name |-> N_reference, args |-> <<content>>]
        ELSE IF startsWith(content, <<"|">>)
        THEN LET bar == indexOf(substring(content, 1), <<"|">>) + 2
             IN  IF bar >= 3
                 THEN LET rest == substring(content, bar)
                          tail == substring(rest, getIndentation(rest))
                      IN  [name |-> N_substitution,
                           args |-> <<SubSeq(content, 2, bar - 1)>>
                                    \o (IF tail # <<>> THEN <<tail>> ELSE <<>>)]
                 ELSE [name |-> N_substitution, args |-> <<content>>]
        ELSE IF indexOf(content, <<":">>) >= 0
        THEN LET colonIndex == indexOf(content, <<":">>)
                 value      == trim(substring(content, colonIndex + 1))
             IN  [name |-> SubSeq(content, 1, colonIndex),
                  args |-> IF value # <<>> THEN <<value>> ELSE <<>>]
        ELSE [name |-> N_comment, args |-> <<content>>]

parseCommentAsDirective(ls, i) ==
    IF ~truthy(ls, i, 0) \/ ~startsWith(trim(peekLine(ls, i, 0)), <<".", ".", " ">>)
    THEN NoMatch(i)
    ELSE
    LET commentLine   == peekLine(ls, i, 0)
        content       == trim(substring(trim(commentLine), 2))
        form          == commentForm(content)
        commentIndent == getIndentation(commentLine)
        continues(k)  ==
            IF isBlank(peekLine(ls, k, 0))
            THEN hasLine(ls, k, 1) /\ getIndentation(peekLine(ls, k, 1)) > commentIndent
            ELSE getIndentation(peekLine(ls, k, 0)) > commentIndent
        e             == skipWhileAt(ls, i + 1, continues)
        bodyLines     == slice(ls, i + 1, e)
        cleaned       == dedentDirective(bodyLines)
    IN  TheOne({
        Matched(DirectiveNode(form.name, form.args, <<>>, sub.children), e, sub.st)
    : sub \in {
                         IF Len(bodyLines) > 0 /\ \E k \in 1..Len(cleaned) : ~isBlank(cleaned[k])
                         THEN subParse(ls, cleaned) ELSE EmptyDoc
      } })

\* the names skipped without the name csv-table
SkippedTableNamesWithoutCsv == {N_list_table, N_flat_table}

\* "Skip table directives - they are handled by TableDirectiveParser"
SkippedTableNames == {N_list_table, N_flat_table, N_csv_table}

DirectiveParser(ls, i) ==
    IF ~truthy(ls, i, 0) THEN NoMatch(i)
    ELSE
    LET line  == peekLine(ls, i, 0)
        match == directiveMatch(line, DirectiveNameChar)
    IN  IF ~startsWith(trim(line), <<".", ".", " ">>) THEN NoMatch(i)
        ELSE IF ~match.ok THEN parseCommentAsDirective(ls, i)
        ELSE IF match.name \in SkippedTableNames THEN NoMatch(i)
        ELSE
        LET j       == skipWhile(ls, i + 1, isOptionLine)
            k       == skipWhile(ls, j, isBlankTruthy)
            e       == bodyEnd(ls, k, getIndentation(line))
            cleaned == dedentDirective(slice(ls, k, e))
        IN  TheOne({
            Matched(DirectiveNode(match.name, splitArgs(match.rest),
                                  optionsOf(ls, i + 1, j, DirectiveNameChar), sub.children),
                    e, sub.st)
        : sub \in {IF Len(cleaned) > 0 THEN subParse(ls, cleaned) ELSE EmptyDoc} })

----------------------------------------------------------------------------
(* ListParser                                                              *)

BulletChars == {"*", "+", "-"}

\* /^([*+\-...])\s+/ on a trimmed line: the length of the match, 0 for none
unorderedMatch(trimmed) ==
    IF Len(trimmed) >= 2 /\ trimmed[1] \in BulletChars /\ IsSpace(trimmed[2])
    THEN 1 + getIndentation(substring(trimmed, 1))
    ELSE 0

\* /^([0-9]+|[a-zA-Z]|[#])\.\s+/ on a trimmed line: the length of the
\* enumerator (0 for no match) and of the whole match
orderedMatch(trimmed) ==
    LET d    == runEnd(trimmed, 1, LAMBDA c : c \in Digit)
        enum == IF d >= 1 THEN d
                ELSE IF Len(trimmed) >= 1 /\ trimmed[1] \in Lower \cup Upper \cup {"#"} THEN 1
                ELSE 0
    IN  IF enum >= 1 /\ Len(trimmed) >= enum + 2
           /\ trimmed[enum + 1] = "." /\ IsSpace(trimmed[enum + 2])
        THEN [enum |-> enum, len |-> enum + 1 + getIndentation(substring(trimmed, enum + 1))]
        ELSE [enum |-> 0, len |-> 0]

\* a bullet match that does not ask for white space after the bullet
matchBulletNoSpace(line) ==
    LET trimmed == trim(line)
    IN  IF Len(trimmed) >= 1 /\ trimmed[1] \in BulletChars
        THEN [ok |-> TRUE, isOrdered |-> FALSE, bullet |-> <<trimmed[1]>>]
        ELSE IF orderedMatch(trimmed).enum > 0
        THEN [ok |-> TRUE, isOrdered |-> TRUE,
              bullet |-> SubSeq(trimmed, 1, orderedMatch(trimmed).enum)]
        ELSE [ok |-> FALSE]

matchBullet(line) ==
    LET trimmed == trim(line)
    IN  IF unorderedMatch(trimmed) > 0
        THEN [ok |-> TRUE, isOrdered |-> FALSE, bullet |-> <<trimmed[1]>>]
        ELSE IF orderedMatch(trimmed).enum > 0
        THEN [ok |-> TRUE, isOrdered |-> TRUE,
              bullet |-> SubSeq(trimmed, 1, orderedMatch(trimmed).enum)]
        ELSE [ok |-> FALSE]

\* the bullet re-extraction of parseListItem: the length of bulletPart, or
\* -1 for "throw new Error('Invalid list item')"
bulletPart(line) ==
    LET trimmed == trim(line)
    IN  IF orderedMatch(trimmed).enum > 0 THEN orderedMatch(trimmed).len
        ELSE IF unorderedMatch(trimmed) > 0 THEN unorderedMatch(trimmed)
        ELSE -1

parseListItem(ls, i) ==
    LET line          == peekLine(ls, i, 0)
        part          == bulletPart(line)
        contentIndent == getIndentation(line) + part
        inItem(l)     == isBlank(l) \/ getIndentation(l) >= contentIndent
        e             == skipWhile(ls, i + 1, inItem)
        contentLines  == <<substring(line, contentIndent)>> \o
                         [k \in 1..(e - i - 1) |->
                             IF isBlank(ls[i + 1 + k]) THEN <<>>
                             ELSE substring(ls[i + 1 + k], contentIndent)]
    IN  IF part = -1 THEN Matched(None, i + 1, "throw")
        ELSE TheOne({
                 Matched([type |-> "list_item", children |-> sub.children], e, sub.st)
             : sub \in {subParse(ls, contentLines)} })

\* no bullet character ever ends a list
bulletNeverChanged(isOrdered, bullet, bulletChar) == FALSE

\* "if (!isOrdered && match.bullet !== bulletChar) break"
bulletChanged(isOrdered, bullet, bulletChar) == ~isOrdered /\ bullet # bulletChar

RECURSIVE listItems(_, _, _, _, _, _)
\* the while loop of ListParser.parse
listItems(ls, i, isOrdered, bulletChar, indentation, acc) ==
    IF ~truthy(ls, i, 0) THEN [items |-> acc, idx |-> i, st |-> "ok"]
    ELSE
    LET currentLine == peekLine(ls, i, 0)
        match       == matchBullet(currentLine)
    IN  IF match.ok /\ match.isOrdered = isOrdered
           /\ getIndentation(currentLine) = indentation
        THEN IF bulletChanged(isOrdered, match.bullet, bulletChar)
             THEN [items |-> acc, idx |-> i, st |-> "ok"]
             ELSE TheOne({
                      IF item.st # "ok" THEN [items |-> acc, idx |-> item.idx, st |-> item.st]
                      ELSE listItems(ls, item.idx, isOrdered, bulletChar, indentation,
                                     Append(acc, item.node))
                  : item \in {parseListItem(ls, i)} })
        ELSE [items |-> acc, idx |-> i, st |-> "ok"]

ListParser(ls, i) ==
    IF ~truthy(ls, i, 0) THEN NoMatch(i)
    ELSE
    LET line        == peekLine(ls, i, 0)
        bulletMatch == matchBullet(line)
    IN  IF ~bulletMatch.ok THEN NoMatch(i)
        ELSE
        TheOne({
            Matched([type |-> "list", ordered |-> bulletMatch.isOrdered,
                     children |-> r.items], r.idx, r.st)
        : r \in {
                 listItems(ls, i, bulletMatch.isOrdered, bulletMatch.bullet,
                           getIndentation(line), <<>>)
          } })

----------------------------------------------------------------------------
(* DefinitionListParser                                                    *)

RECURSIVE definitionItems(_, _, _)
\* the while loop of DefinitionListParser.parse
definitionItems(ls, i, acc) ==
    IF ~truthy(ls, i, 0) THEN [items |-> acc, idx |-> i, st |-> "ok"]
    ELSE
    LET termLine == peekLine(ls, i, 0)
    IN  IF isBlank(termLine) THEN definitionItems(ls, i + 1, acc)
        ELSE IF ~truthy(ls, i, 1) THEN [items |-> acc, idx |-> i, st |-> "ok"]
        ELSE
        LET defLine   == peekLine(ls, i, 1)
            defIndent == getIndentation(defLine)
            inDef(l)  == l # <<>> /\ (isBlank(l) \/ getIndentation(l) >= defIndent)
            e         == skipWhile(ls, i + 1, inDef)
            defLines  == [k \in 1..(e - i - 1) |->
                             IF isBlank(ls[i + 1 + k]) THEN <<>>
                             ELSE substring(ls[i + 1 + k], defIndent)]
            item(sub) == [type |-> "definition_list_item",
                          children |-> <<[type |-> "term", children |-> <<[type |-> "text", value |-> trim(termLine)]>>],
                                         [type |-> "definition", children |-> sub.children]>>]
        IN  IF defIndent <= getIndentation(termLine) \/ isBlank(defLine)
            THEN [items |-> acc, idx |-> i, st |-> "ok"]
            ELSE TheOne({
                     IF sub.st # "ok" THEN [items |-> acc, idx |-> e, st |-> sub.st]
                     ELSE definitionItems(ls, e, Append(acc, item(sub)))
                 : sub \in {subParse(ls, defLines)} })

DefinitionListParser(ls, i) ==
    IF ~truthy(ls, i, 0) \/ ~truthy(ls, i, 1) THEN NoMatch(i)
    ELSE
    LET line     == peekLine(ls, i, 0)
        nextLine == peekLine(ls, i, 1)
    IN  IF getIndentation(nextLine) <= getIndentation(line) \/ isBlank(nextLine)
        THEN NoMatch(i)
        ELSE TheOne({
                 Matched([type |-> "definition_list", ordered |-> FALSE,
                          children |-> r.items], r.idx, r.st)
             : r \in {definitionItems(ls, i, <<>>)} })

----------------------------------------------------------------------------
(* ListTableParser, CsvTableParser, TableDirectiveParser                   *)

\* a JavaScript number: NaN, or an integer
NaN == [nan |-> TRUE, val |-> 0]

Num(v) == [nan |-> FALSE, val |-> v]

DigitSeq == <<"0", "1", "2", "3", "4", "5", "6", "7", "8", "9">>

digitValue(c) == (CHOOSE k \in 1..10 : DigitSeq[k] = c) - 1

RECURSIVE decimal(_)
\* the value of a run of decimal digits
decimal(s) ==
    IF s = <<>> THEN 0
    ELSE 10 * decimal(SubSeq(s, 1, Len(s) - 1)) + digitValue(s[Len(s)])

\* parseInt(s): white space, a sign, then the longest run of decimal digits;
\* NaN when there is no digit there (no value of the model starts with 0x)
parseInt(s) ==
    LET t    == substring(s, getIndentation(s))
        sign == IF Len(t) >= 1 /\ t[1] \in {"+", "-"} THEN 1 ELSE 0
        e    == runEnd(t, sign + 1, LAMBDA c : c \in Digit)
    IN  IF e < sign + 1 THEN NaN
        ELSE IF sign = 1 /\ t[1] = "-" THEN Num(0 - decimal(SubSeq(t, sign + 1, e)))
        ELSE Num(decimal(SubSeq(t, sign + 1, e)))

\* options[key] || fallback
optionOr(options, key, fallback) ==
    IF key \in DOMAIN options /\ options[key] # <<>> THEN options[key] ELSE fallback

N_header_rows == <<"h","e","a","d","e","r","-","r","o","w","s">>

N_stub_columns == <<"s","t","u","b","-","c","o","l","u","m","n","s">>

N_header == <<"h","e","a","d","e","r">>

\* lines.join('\n').trim(), as the lines of the trimmed text (none when the
\* text is empty)
trimText(ls) ==
    LET inner == dropTrailingBlank(dropLeadingBlank(ls))
        n     == Len(inner)
    IN  [k \in 1..n |->
            LET a == IF k = 1 THEN substring(inner[k], getIndentation(inner[k])) ELSE inner[k]
            IN  IF k = n THEN SubSeq(a, 1, LastInk(a)) ELSE a]

\* a parseCell loop that takes no role off the content
stripNoRoles(content, cspan, rspan) ==
    [content |-> content, cspan |-> cspan, rspan |-> rspan]

RECURSIVE stripRoles(_, _, _)
\* the loop over /^:([a-z-]+):`(\d+)`/ of ListTableParser.parseCell
stripRoles(content, cspan, rspan) ==
    IF content = <<>> THEN [content |-> content, cspan |-> cspan, rspan |-> rspan]
    ELSE
    LET l == content[1]
        n == Len(l)
        r == runEnd(l, 2, LAMBDA c : c \in Lower \cup {"-"})
        d == runEnd(l, r + 3, LAMBDA c : c \in Digit)
        m == /\ n >= 1 /\ l[1] = ":" /\ r >= 2
             /\ n >= r + 2 /\ l[r + 1] = ":" /\ l[r + 2] = BackQuote
             /\ d >= r + 3 /\ n >= d + 1 /\ l[d + 1] = BackQuote
        role == SubSeq(l, 2, r)
        val  == decimal(SubSeq(l, r + 3, d))
    IN  IF ~m THEN [content |-> content, cspan |-> cspan, rspan |-> rspan]
        ELSE stripRoles(trimText(<<substring(l, d + 1)>> \o Tail(content)),
                        IF role = <<"c","s","p","a","n">> THEN val ELSE cspan,
                        IF role = <<"r","s","p","a","n">> THEN val ELSE rspan)

\* a parseCell without the ".." test: every cell content is parsed
parseCellAlwaysParsed(doc, cellLines) ==
    LET c   == stripRoles(trimText(cellLines), 1, 1)
    IN  TheOne({
        [cell |-> [type |-> "table_cell", children |-> sub.children,
                   cspan |-> c.cspan, rspan |-> c.rspan],
         st |-> sub.st]
    : sub \in {subParse(doc, c.content)} })

\* ListTableParser.parseCell, with the block parser the table directive passes
parseCell(doc, cellLines) ==
    LET c   == stripRoles(trimText(cellLines), 1, 1)
    IN  TheOne({
        [cell |-> [type |-> "table_cell", children |-> sub.children,
                   cspan |-> c.cspan, rspan |-> c.rspan],
         st |-> sub.st]
    : sub \in {IF c.content = << <<".", ".">> >> THEN EmptyDoc ELSE subParse(doc, c.content)} })

rowMarker(l) ==
    startsWith(trim(l), <<"*", " ", "-">>) \/ startsWith(trim(l), <<"*", "-">>)

cellMarker(l) == startsWith(trim(l), <<"-", " ">>) \/ trim(l) = <<"-">>

\* collectCellContinuationLines: the index it stops at
continuationEnd(ls, i, cellContentIndent, rowIndent) ==
    LET continues(l) ==
            /\ l # <<>>
            /\ ~(rowMarker(l) /\ getIndentation(l) <= rowIndent)
            /\ ~(cellMarker(l) /\ getIndentation(l) <= rowIndent + 2)
            /\ ~(~isBlank(l) /\ getIndentation(l) < cellContentIndent
                 /\ getIndentation(l) <= rowIndent)
    IN  skipWhile(ls, i, continues)

\* collectCellContinuationLines: the lines it appends to the cell
continuationLines(ls, i, e, cellContentIndent) ==
    [k \in 1..(e - i) |->
        LET l == ls[i + k]
        IN  IF isBlank(l) THEN <<>>
            ELSE IF getIndentation(l) >= cellContentIndent THEN substring(l, cellContentIndent)
            ELSE substring(l, getIndentation(l))]

RECURSIVE rowCells(_, _, _, _, _)
\* the loop over the remaining cells of a row
rowCells(doc, ls, i, rowIndent, acc) ==
    IF ~truthy(ls, i, 0) THEN [cells |-> acc, idx |-> i, st |-> "ok"]
    ELSE
    LET cellLine == peekLine(ls, i, 0)
        dashPos  == indexOf(cellLine, <<"-">>)
        content  == IF trim(cellLine) = <<"-">> THEN <<>> ELSE substring(cellLine, dashPos + 2)
        e        == continuationEnd(ls, i + 1, dashPos + 2, rowIndent)
    IN  IF rowMarker(cellLine) \/ getIndentation(cellLine) < rowIndent \/ ~cellMarker(cellLine)
        THEN [cells |-> acc, idx |-> i, st |-> "ok"]
        ELSE TheOne({
                 IF c.st # "ok" THEN [cells |-> acc, idx |-> e, st |-> c.st]
                 ELSE rowCells(doc, ls, e, rowIndent, Append(acc, c.cell))
             : c \in {parseCell(doc, <<content>> \o continuationLines(ls, i + 1, e, dashPos + 2))} })

RECURSIVE tableRows(_, _, _, _)
\* the main loop of ListTableParser.parse
tableRows(doc, ls, i, acc) ==
    IF ~hasMoreLines(ls, i) THEN [rows |-> acc, idx |-> i, st |-> "ok"]
    ELSE
    LET line      == peekLine(ls, i, 0)
        rowIndent == getIndentation(line)
        firstCellIndent == indexOf(line, <<"-", " ">>) + 2
        e         == continuationEnd(ls, i + 1, firstCellIndent, rowIndent)
    IN  IF isBlank(line) THEN tableRows(doc, ls, i + 1, acc)
        ELSE IF ~startsWith(trim(line), <<"*", " ", "-">>)
        THEN [rows |-> acc, idx |-> i, st |-> "ok"]
        ELSE TheOne({
                 IF first.st # "ok" THEN [rows |-> acc, idx |-> e, st |-> first.st]
                 ELSE TheOne({
                          IF rest.st # "ok"
                          THEN [rows |-> acc, idx |-> rest.idx, st |-> rest.st]
                          ELSE tableRows(doc, ls, rest.idx,
                                         Append(acc, [type |-> "table_row", cells |-> rest.cells]))
                      : rest \in {rowCells(doc, ls, e, rowIndent, <<first.cell>>)} })
             : first \in {parseCell(doc, <<substring(line, firstCellIndent)>>
                                    \o continuationLines(ls, i + 1, e, firstCellIndent))} })

ListTableParser(doc, ls, headerRows, stubColumns, options) ==
    TheOne({
        IF r.st = "ok" /\ r.rows = <<>> THEN [node |-> None, st |-> "ok"]
        ELSE [node |-> [type |-> "table", rows |-> r.rows, header_rows |-> headerRows,
                        stub_columns |-> stubColumns, options |-> options],
              st |-> r.st]
    : r \in {tableRows(doc, ls, 0, <<>>)} })

RECURSIVE splitOn(_, _)
\* s.split(c) for a one-character separator
splitOn(s, c) ==
    IF indexOf(s, <<c>>) = -1 THEN <<s>>
    ELSE <<SubSeq(s, 1, indexOf(s, <<c>>))>> \o splitOn(substring(s, indexOf(s, <<c>>) + 1), c)

RECURSIVE csvCells(_, _)
\* CsvTableParser.parseCell over the non-empty trimmed fields of a line
csvCells(doc, fields) ==
    IF fields = <<>> THEN [cells |-> <<>>, st |-> "ok"]
    ELSE
    LET f    == trim(fields[1])
        raw  == IF startsWith(f, <<"\"">>) /\ f[Len(f)] = "\""
                THEN SubSeq(f, 2, Len(f) - 1) ELSE f
    IN  IF f = <<>> THEN csvCells(doc, Tail(fields))
        ELSE TheOne({
                 IF sub.st # "ok" THEN [cells |-> <<>>, st |-> sub.st]
                 ELSE TheOne({
                          [cells |-> <<[type |-> "table_cell", children |-> sub.children]>>
                                     \o rest.cells,
                           st |-> rest.st]
                      : rest \in {csvCells(doc, Tail(fields))} })
             : sub \in {subParse(doc, <<raw>>)} })

parseCsvLine(doc, line) == csvCells(doc, splitOn(line, ","))

RECURSIVE csvRows(_, _, _, _)
\* the loop of CsvTableParser.parse
csvRows(doc, ls, i, acc) ==
    IF ~hasMoreLines(ls, i) THEN [rows |-> acc, st |-> "ok"]
    ELSE
    LET line == peekLine(ls, i, 0)
    IN  IF isBlank(line) THEN csvRows(doc, ls, i + 1, acc)
        ELSE TheOne({
                 IF c.st # "ok" THEN [rows |-> acc, st |-> c.st]
                 ELSE csvRows(doc, ls, i + 1,
                              IF Len(c.cells) > 0
                              THEN Append(acc, [type |-> "table_row", cells |-> c.cells])
                              ELSE acc)
             : c \in {parseCsvLine(doc, trim(line))} })

CsvTableParser(doc, ls, headerStr, options, headerRows, stubColumns) ==
    TheOne({ TheOne({
    LET st   == IF head.st # "ok" THEN head.st ELSE r.st
    IN  IF st = "ok" /\ r.rows = <<>> THEN [node |-> None, st |-> "ok"]
        ELSE [node |-> [type |-> "table", rows |-> r.rows,
                        header_rows |-> IF headerRows \notin {Num(0), NaN} THEN headerRows
                                        ELSE IF headerStr # <<>> THEN Num(1) ELSE Num(0),
                        stub_columns |-> stubColumns, options |-> options],
              st |-> st]
    : r \in {
                csvRows(doc, ls, 0, IF headerStr # <<>>
                               THEN <<[type |-> "table_row", cells |-> head.cells]>> ELSE <<>>)
      } })
    : head \in {IF headerStr # <<>> THEN parseCsvLine(doc, headerStr) ELSE [cells |-> <<>>, st |-> "ok"]} })

tableMatch(line) ==
    IF literalMatch(line, N_list_table).ok THEN literalMatch(line, N_list_table)
    ELSE IF literalMatch(line, N_flat_table).ok THEN literalMatch(line, N_flat_table)
    ELSE literalMatch(line, N_csv_table)

TableDirectiveParser(ls, i) ==
    IF ~truthy(ls, i, 0) \/ ~tableMatch(peekLine(ls, i, 0)).ok THEN NoMatch(i)
    ELSE
    LET name        == tableMatch(peekLine(ls, i, 0)).name
        isOpt(l)    == optionMatch(l, TableOptionChar).ok
        j           == skipWhile(ls, i + 1, isOpt)
        options     == optionsOf(ls, i + 1, j, TableOptionChar)
        k           == skipWhile(ls, j, isBlank)
        bodyIndent  == getIndentation(peekLine(ls, k, 0))
        inBody(l)   == l # <<>> /\ (isBlank(l) \/ getIndentation(l) >= bodyIndent)
        e           == skipWhile(ls, k, inBody)
        dedented    == dedentTable(slice(ls, k, e))
        headerRows  == parseInt(optionOr(options, N_header_rows, <<"0">>))
        stubColumns == parseInt(optionOr(options, N_stub_columns, <<"0">>))
    IN  IF ~hasMoreLines(ls, k) THEN Matched(None, k, "ok")
        ELSE TheOne({
                 Matched(table.node, e, table.st)
             : table \in {IF name = N_csv_table
                          THEN CsvTableParser(ls, dedented, optionOr(options, N_header, <<>>),
                                              options, headerRows, stubColumns)
                          ELSE ListTableParser(ls, dedented, headerRows, stubColumns, options)} })

----------------------------------------------------------------------------
(* GridTableParser                                                         *)

\* /^\+[-=+]+\+$/
isGridSeparator(trimmed) ==
    /\ Len(trimmed) >= 3
    /\ trimmed[1] = "+" /\ trimmed[Len(trimmed)] = "+"
    /\ \A k \in 2..(Len(trimmed) - 1) : trimmed[k] \in {"-", "=", "+"}

RECURSIVE gridCells(_, _)
\* the cells of the texts between the bars of a content line
gridCells(doc, texts) ==
    IF texts = <<>> THEN [cells |-> <<>>, st |-> "ok"]
    ELSE
    LET text == trim(texts[1])
    IN  TheOne({ TheOne({
        IF sub.st # "ok" THEN [cells |-> <<>>, st |-> sub.st]
        ELSE [cells |-> <<[type |-> "table_cell", children |-> sub.children]>> \o rest.cells,
              st |-> rest.st]
    : rest \in {gridCells(doc, Tail(texts))} })
    : sub \in {IF text = <<".", ".">> \/ text = <<>> THEN EmptyDoc ELSE subParse(doc, <<text>>)} })

RECURSIVE gridRows(_, _, _)
\* the while loop of GridTableParser.parse
gridRows(ls, i, acc) ==
    IF ~truthy(ls, i, 0) THEN [rows |-> acc, idx |-> i, st |-> "ok"]
    ELSE
    LET trimmed == trim(peekLine(ls, i, 0))
    IN  IF startsWith(trimmed, <<"+">>) THEN gridRows(ls, i + 1, acc)
        ELSE IF startsWith(trimmed, <<"|">>)
        THEN TheOne({
                 IF c.st # "ok" THEN [rows |-> acc, idx |-> i + 1, st |-> c.st]
                 ELSE gridRows(ls, i + 1,
                               Append(acc, [type |-> "table_row", cells |-> c.cells]))
             : c \in {gridCells(ls, splitOn(SubSeq(trimmed, 2, Len(trimmed) - 1), "|"))} })
        ELSE [rows |-> acc, idx |-> i, st |-> "ok"]

GridTableParser(ls, i) ==
    IF ~truthy(ls, i, 0) \/ ~isGridSeparator(trim(peekLine(ls, i, 0))) THEN NoMatch(i)
    ELSE TheOne({
             IF r.st = "ok" /\ r.rows = <<>> THEN Matched(None, r.idx, "ok")
             ELSE Matched([type |-> "table", rows |-> r.rows], r.idx, r.st)
         : r \in {gridRows(ls, i, <<>>)} })

----------------------------------------------------------------------------
(* TabsParser                                                              *)

LowerSeq == <<"a","b","c","d","e","f","g","h","i","j","k","l","m",
              "n","o","p","q","r","s","t","u","v","w","x","y","z">>

UpperSeq == <<"A","B","C","D","E","F","G","H","I","J","K","L","M",
              "N","O","P","Q","R","S","T","U","V","W","X","Y","Z">>

toLowerCase(s) ==
    [k \in 1..Len(s) |->
        IF s[k] \in Upper THEN LowerSeq[CHOOSE j \in 1..26 : UpperSeq[j] = s[k]] ELSE s[k]]

displayNames ==
    (<<"c">> :> <<"C">>) @@
    (<<"c","+","+">> :> <<"C","+","+">>) @@
    (<<"c","p","p">> :> <<"C","+","+">>) @@
    (<<"p","y">> :> <<"P","y","t","h","o","n">>) @@
    (<<"p","y","t","h","o","n">> :> <<"P","y","t","h","o","n">>) @@
    (<<"j","a","v","a">> :> <<"J","a","v","a">>) @@
    (<<"j","s">> :> <<"J","a","v","a","S","c","r","i","p","t">>) @@
    (<<"j","a","v","a","s","c","r","i","p","t">> :> <<"J","a","v","a","S","c","r","i","p","t">>) @@
    (<<"t","s">> :> <<"T","y","p","e","S","c","r","i","p","t">>) @@
    (<<"t","y","p","e","s","c","r","i","p","t">> :> <<"T","y","p","e","S","c","r","i","p","t">>) @@
    (<<"j","u","l","i","a">> :> <<"J","u","l","i","a">>) @@
    (<<"f","o","r","t","r","a","n">> :> <<"F","o","r","t","r","a","n">>) @@
    (<<"r">> :> <<"R">>) @@
    (<<"r","u","b","y">> :> <<"R","u","b","y">>) @@
    (<<"g","o">> :> <<"G","o">>) @@
    (<<"r","u","s","t">> :> <<"R","u","s","t">>) @@
    (<<"s","w","i","f","t">> :> <<"S","w","i","f","t">>) @@
    (<<"k","o","t","l","i","n">> :> <<"K","o","t","l","i","n">>) @@
    (<<"s","c","a","l","a">> :> <<"S","c","a","l","a">>) @@
    (<<"b","a","s","h">> :> <<"B","a","s","h">>) @@
    (<<"s","h">> :> <<"S","h","e","l","l">>) @@
    (<<"s","h","e","l","l">> :> <<"S","h","e","l","l">>) @@
    (<<"s","q","l">> :> <<"S","Q","L">>) @@
    (<<"h","t","m","l">> :> <<"H","T","M","L">>) @@
    (<<"c","s","s">> :> <<"C","S","S">>) @@
    (<<"j","s","o","n">> :> <<"J","S","O","N">>) @@
    (<<"y","a","m","l">> :> <<"Y","A","M","L">>) @@
    (<<"x","m","l">> :> <<"X","M","L">>)

getLanguageDisplayName(lang) ==
    IF toLowerCase(lang) \in DOMAIN displayNames THEN displayNames[toLowerCase(lang)] ELSE lang

tabMatch(line) ==
    IF literalMatch(line, N_tab).ok THEN literalMatch(line, N_tab)
    ELSE IF literalMatch(line, N_group_tab).ok THEN literalMatch(line, N_group_tab)
    ELSE literalMatch(line, N_code_tab)

createTab(doc, tabType, args, bodyLines) ==
    LET dedentedBody == dedent(bodyLines)
        parts    == IF args = <<>> THEN << <<>> >> ELSE splitWords(args)
        language == parts[1]
        rest     == joinWith(Tail(parts), <<" ">>)
        title    == IF tabType # N_code_tab THEN args
                    ELSE IF rest # <<>> THEN rest ELSE getLanguageDisplayName(language)
    IN  TheOne({
    LET kids     == IF tabType = N_code_tab
                    THEN <<[type |-> "literal_block", language |-> language,
                            value |-> trimText(dedentedBody)]>>
                    ELSE sub.children
        tab      == [type |-> "tab", title |-> title, children |-> kids]
        grouped  == IF tabType = N_group_tab /\ args # <<>>
                    THEN [group |-> args] @@ tab ELSE tab
    IN  [tab |-> IF tabType = N_code_tab /\ language # <<>>
                 THEN [language |-> language] @@ grouped ELSE grouped,
         st  |-> sub.st]
    : sub \in {
                    IF tabType # N_code_tab /\ trimText(dedentedBody) # <<>>
                    THEN subParse(doc, dedentedBody) ELSE EmptyDoc
      } })

RECURSIVE parseTabsFromBodyFlat(_, _, _, _)
\* a loop whose tab bodies end at the next marker whatever its indentation
parseTabsFromBodyFlat(doc, dedentedLines, i, acc) ==
    IF i >= Len(dedentedLines) THEN [tabs |-> acc, st |-> "ok"]
    ELSE
    LET line      == dedentedLines[i + 1]
        m         == tabMatch(line)
        tabIndent == getIndentation(line)
        inTab(l)  == isBlank(l) \/ (getIndentation(l) > tabIndent /\ ~tabMatch(l).ok)
        e         == skipWhile(dedentedLines, i + 1, inTab)
    IN  IF isBlank(line) \/ ~m.ok THEN parseTabsFromBodyFlat(doc, dedentedLines, i + 1, acc)
        ELSE TheOne({
                 IF t.st # "ok" THEN [tabs |-> acc, st |-> t.st]
                 ELSE parseTabsFromBodyFlat(doc, dedentedLines, e, Append(acc, t.tab))
             : t \in {createTab(doc, m.name, trim(m.rest), slice(dedentedLines, i + 1, e))} })

RECURSIVE parseTabsFromBody(_, _, _, _)
\* the loop of parseTabsFromBody over the dedented body, i counted from 0
parseTabsFromBody(doc, dedentedLines, i, acc) ==
    IF i >= Len(dedentedLines) THEN [tabs |-> acc, st |-> "ok"]
    ELSE
    LET line      == dedentedLines[i + 1]
        m         == tabMatch(line)
        tabIndent == getIndentation(line)
        inTab(l)  == isBlank(l) \/ getIndentation(l) > tabIndent
        e         == skipWhile(dedentedLines, i + 1, inTab)
    IN  IF isBlank(line) \/ ~m.ok THEN parseTabsFromBody(doc, dedentedLines, i + 1, acc)
        ELSE TheOne({
                 IF t.st # "ok" THEN [tabs |-> acc, st |-> t.st]
                 ELSE parseTabsFromBody(doc, dedentedLines, e, Append(acc, t.tab))
             : t \in {createTab(doc, m.name, trim(m.rest), slice(dedentedLines, i + 1, e))} })

TabsParser(ls, i) ==
    IF ~truthy(ls, i, 0) \/ ~literalMatch(peekLine(ls, i, 0), N_tabs).ok THEN NoMatch(i)
    ELSE
    LET k == skipWhile(ls, i + 1, isBlankTruthy)
        e == bodyEnd(ls, k, getIndentation(peekLine(ls, i, 0)))
    IN  TheOne({
        Matched([type |-> "tabs", children |-> r.tabs], e, r.st)
    : r \in {parseTabsFromBody(ls, dedent(slice(ls, k, e)), 0, <<>>)} })

----------------------------------------------------------------------------
(* GridParser                                                              *)

N_gutter == <<"g","u","t","t","e","r">>

\* words.map(c => parseInt(c, 10)).filter(n => !isNaN(n))
RECURSIVE parseInts(_)
parseInts(words) ==
    IF words = <<>> THEN <<>>
    ELSE (IF parseInt(words[1]) = NaN THEN <<>> ELSE <<parseInt(words[1])>>)
         \o parseInts(Tail(words))

isGridOption(l) == optionMatch(l, GridOptionChar).ok

\* /^\s+\.\.\s+<name>::/
gridItemTest(l, name) ==
    /\ getIndentation(l) >= 1
    /\ afterDots(l) # 0
    /\ startsWith(SubSeq(l, afterDots(l), Len(l)), name \o <<":", ":">>)

\* the body loop of parseGridItem and parseGridItemCard
gridItemBodyEnd(ls, i, parentIndent, itemStartIndent) ==
    LET inItem(l) ==
            /\ ~(getIndentation(l) <= parentIndent /\ ~isBlank(l))
            /\ ~(/\ getIndentation(l) = itemStartIndent /\ ~isBlank(l)
                 /\ getIndentation(l) >= 1
                 /\ startsWith(substring(l, getIndentation(l)), <<".", ".">>))
    IN  skipWhile(ls, i, inItem)

gridItemBody(ls, i, e) ==
    dedentGrid([k \in 1..(e - i) |-> IF isBlank(ls[i + k]) THEN <<>> ELSE ls[i + k]])

parseGridItem(ls, i, parentIndent, itemStartIndent) ==
    LET e   == gridItemBodyEnd(ls, i + 1, parentIndent, itemStartIndent)
    IN  TheOne({
        Matched([type |-> "grid-item", children |-> sub.children], e, sub.st)
    : sub \in {subParse(ls, gridItemBody(ls, i + 1, e))} })

parseGridItemCard(ls, i, parentIndent, cardStartIndent) ==
    LET m   == literalMatch(peekLine(ls, i, 0), N_grid_item_card)
        j   == skipWhile(ls, i + 1, isGridOption)
        e   == gridItemBodyEnd(ls, j, parentIndent, cardStartIndent)
    IN  TheOne({
    LET card == [type |-> "grid-item-card", children |-> sub.children]
        titled == IF trim(m.rest) # <<>> THEN [title |-> trim(m.rest)] @@ card ELSE card
    IN  Matched(withOptions(titled, optionsOf(ls, i + 1, j, GridOptionChar)), e, sub.st)
    : sub \in {subParse(ls, gridItemBody(ls, j, e))} })

RECURSIVE gridChildren(_, _, _, _)
\* the loop of GridParser.parse over the grid items
gridChildren(ls, i, baseIndent, acc) ==
    IF ~hasMoreLines(ls, i) THEN [children |-> acc, idx |-> i, st |-> "ok"]
    ELSE
    LET current == peekLine(ls, i, 0)
    IN  IF isBlank(current) THEN gridChildren(ls, i + 1, baseIndent, acc)
        ELSE IF getIndentation(current) <= baseIndent
                \/ ~(gridItemTest(current, N_grid_item) \/ gridItemTest(current, N_grid_item_card))
        THEN [children |-> acc, idx |-> i, st |-> "ok"]
        ELSE TheOne({
                 IF item.st # "ok" THEN [children |-> acc, idx |-> item.idx, st |-> item.st]
                 ELSE gridChildren(ls, item.idx, baseIndent, Append(acc, item.node))
             : item \in {IF gridItemTest(current, N_grid_item)
                         THEN parseGridItem(ls, i, baseIndent, getIndentation(current))
                         ELSE parseGridItemCard(ls, i, baseIndent, getIndentation(current))} })

GridParser(ls, i) ==
    IF ~truthy(ls, i, 0) \/ ~literalMatchArg(peekLine(ls, i, 0), N_grid).ok THEN NoMatch(i)
    ELSE
    LET line    == peekLine(ls, i, 0)
        columns == parseInts(splitArgs(literalMatchArg(line, N_grid).rest))
        j       == skipWhile(ls, i + 1, isGridOption)
        all     == optionsOf(ls, i + 1, j, GridOptionChar)
        options == [key \in DOMAIN all \ {N_gutter} |-> all[key]]
        gutterParts == IF N_gutter \in DOMAIN all THEN splitArgs(all[N_gutter]) ELSE <<>>
        k       == skipWhile(ls, j, isBlank)
    IN  TheOne({
    LET grid    == withOptions([type |-> "grid",
                                columns |-> IF columns = <<>> THEN <<Num(1)>> ELSE columns,
                                children |-> r.children], options)
    IN  Matched(IF N_gutter \in DOMAIN all
                THEN [gutter |-> IF Len(gutterParts) <= 1 THEN all[N_gutter]
                                 ELSE parseInts(gutterParts)] @@ grid
                ELSE grid,
                r.idx, r.st)
    : r \in {gridChildren(ls, k, getIndentation(line), <<>>)} })

----------------------------------------------------------------------------
(* BlockParser                                                             *)

SectionUnderlineChars ==
    {"=", "-", BackQuote, ":", "'", "\"", "~", "^", "_", "*", "+", "#", "<", ">"}

isSectionUnderline(line) ==
    LET trimmed == trim(line)
    IN  /\ Len(trimmed) >= 2
        /\ trimmed[1] \in SectionUnderlineChars
        /\ sameChar(trimmed)

parseSection(ls, i) ==
    LET titleLine     == ls[i + 1]
        underlineLine == ls[i + 2]
    IN  Matched([type |-> "section", title |-> trim(titleLine),
                 level |-> IF startsWith(trim(underlineLine), <<"-">>) THEN 2 ELSE 1,
                 children |-> <<>>],
                i + 2, "ok")

\* InlineParser.parse: the text as one text node
inlineParse(text) == <<[type |-> "text", value |-> text]>>

\* a paragraph that does not end at a line that looks like a list item
parseParagraphThroughBullets(ls, i) ==
    LET taken(k) ==
            LET line == ls[k + 1]
            IN  /\ ~isBlank(line)
                /\ ~(truthy(ls, k, 1) /\ isSectionUnderline(peekLine(ls, k, 1)))
                /\ ~startsWith(trim(line), <<".", ".", " ">>)
        e    == skipWhileAt(ls, i, taken)
        text == joinWith([k \in 1..(e - i) |-> trim(ls[i + k])], <<" ">>)
    IN  IF e = i THEN NoMatch(i)
        ELSE Matched([type |-> "paragraph", children |-> inlineParse(text)], e, "ok")

parseParagraph(ls, i) ==
    LET taken(k) ==
            LET line == ls[k + 1]
            IN  /\ ~isBlank(line)
                /\ ~(truthy(ls, k, 1) /\ isSectionUnderline(peekLine(ls, k, 1)))
                /\ ~startsWith(trim(line), <<".", ".", " ">>)
                /\ unorderedMatch(trim(line)) = 0
                /\ orderedMatch(trim(line)).enum = 0
        e    == skipWhileAt(ls, i, taken)
        text == joinWith([k \in 1..(e - i) |-> trim(ls[i + k])], <<" ">>)
    IN  IF e = i THEN NoMatch(i)
        ELSE Matched([type |-> "paragraph", children |-> inlineParse(text)], e, "ok")

\* a different order: the generic directive parser before the container parser
ParserOrderDirectiveFirst ==
    <<"heading", "button", "codeBlock", "grid", "dropdown", "card", "image",
      "directive", "container", "admonition", "tabs", "tableDirective",
      "gridTable", "list", "definitionList">>

\* the order in which parseBlock tries the construct parsers
ParserOrder ==
    <<"heading", "button", "codeBlock", "grid", "dropdown", "card", "image",
      "container", "admonition", "tabs", "directive", "tableDirective",
      "gridTable", "list", "definitionList">>

RunParser(name, ls, i) ==
    CASE name = "heading"        -> HeadingParser(ls, i)
      [] name = "button"         -> ButtonParser(ls, i)
      [] name = "codeBlock"      -> CodeBlockParser(ls, i)
      [] name = "grid"           -> GridParser(ls, i)
      [] name = "dropdown"       -> DropdownParser(ls, i)
      [] name = "card"           -> CardParser(ls, i)
      [] name = "image"          -> ImageParser(ls, i)
      [] name = "container"      -> ContainerParser(ls, i)
      [] name = "admonition"     -> AdmonitionParser(ls, i)
      [] name = "tabs"           -> TabsParser(ls, i)
      [] name = "directive"      -> DirectiveParser(ls, i)
      [] name = "tableDirective" -> TableDirectiveParser(ls, i)
      [] name = "gridTable"      -> GridTableParser(ls, i)
      [] name = "list"           -> ListParser(ls, i)
      [] name = "definitionList" -> DefinitionListParser(ls, i)

\* What one call of parseBlock gives: the node, the index of the line the
\* returning branch started on, the cursor after the call, st, the parsers it
\* tried (each with the cursor before and after its call and
\* whether it returned a node) and the branch that produced the result.
BlockResult(r, from, trace, path) ==
    [node |-> r.node, from |-> from, idx |-> r.idx, st |-> r.st,
     trace |-> trace, path |-> path]

\* the tail of parseBlock: the section check on the line read at the start of
\* the call, then the paragraph
sectionOrParagraph(ls, line, i, trace) ==
    IF /\ truthy(ls, i, 1)
       /\ isSectionUnderline(peekLine(ls, i, 1))
       /\ Len(trim(peekLine(ls, i, 1))) >= Len(trim(line))
    THEN BlockResult(parseSection(ls, i), i, trace, "section")
    ELSE BlockResult(parseParagraph(ls, i), i, trace, "paragraph")

\* "if (x) return x": the call ends parseBlock (an Error ends it too)
Returns(b) == b.st # "ok" \/ b.node.type # "none"

RECURSIVE tryParsers(_, _, _, _, _)
\* the chain "const x = this.xParser.parse(); if (x) return x;" over the
\* parsers ParserOrder[lo..hi], from cursor i: the first half of the chain,
\* then, when none of its parsers returned a node, the second half from the
\* cursor the first half left
tryParsers(ls, lo, hi, i, trace) ==
    IF lo = hi
    THEN TheOne({ BlockResult(r, i,
                              Append(trace, [parser |-> ParserOrder[lo], before |-> i,
                                             after |-> r.idx,
                                             matched |-> r.node.type # "none"]),
                              ParserOrder[lo])
                  : r \in {RunParser(ParserOrder[lo], ls, i)} })
    ELSE TheOne({ IF Returns(left) THEN left
                  ELSE tryParsers(ls, (lo + hi) \div 2 + 1, hi, left.idx, left.trace)
                  : left \in {tryParsers(ls, lo, (lo + hi) \div 2, i, trace)} })

parseBlock(ls, i) ==
    IF ~hasLine(ls, i, 0) THEN BlockResult(NoMatch(i), i, <<>>, "end")
    ELSE IF isBlank(peekLine(ls, i, 0)) THEN BlockResult(NoMatch(i + 1), i, <<>>, "blank")
    ELSE TheOne({ IF Returns(c) THEN c
                  ELSE sectionOrParagraph(ls, peekLine(ls, i, 0), c.idx, c.trace)
                  : c \in {tryParsers(ls, 1, Len(ParserOrder), i, <<>>)} })

\* document.children.unshift(block): the block put in front
unshift(nodes, block) == <<block>> \o nodes

\* document.children.push(block)
push(nodes, block) == Append(nodes, block)

RECURSIVE parseLoop(_, _, _)
\* the while loop of BlockParser.parse from index i on: "hang" when a call of
\* parseBlock returns null without moving the cursor, since every later
\* iteration then repeats it
parseLoop(ls, i, acc) ==
    IF ~hasMoreLines(ls, i) THEN [children |-> acc, st |-> "ok"]
    ELSE
    TheOne({ IF b.st # "ok" THEN [children |-> acc, st |-> b.st]
             ELSE IF b.node.type = "none" /\ b.idx = i THEN [children |-> acc, st |-> "hang"]
             ELSE parseLoop(ls, b.idx,
                            IF b.node.type = "none" THEN acc ELSE push(acc, b.node))
             : b \in {parseBlock(ls, i)} })

\* input.split(/\r?\n/) of the joined lines: an empty text is one empty line
ParseDocument(ls) ==
    parseLoop(IF ls = <<>> THEN << <<>> >> ELSE ls, 0, <<>>)

----------------------------------------------------------------------------
(* The parse of a document as a state machine: one step per iteration of   *)
(* the loop of BlockParser.parse.                                          *)

\* the texts of at most n lines over a pool of lines
Docs(pool, n) == UNION {[1..k -> pool] : k \in 1..n}

\* lines: blank, text, a short underline, indented text, a table directive
\* without body, a grid separator, a container, a comment
GeneralPool ==
    {<<>>,
     <<"a","b","c">>,
     <<"-","-">>,
     <<" "," ","x">>,
     <<".","."," ","l","i","s","t","-","t","a","b","l","e",":",":">>,
     <<"+","-","-","+">>,
     <<".","."," ","c","o","n","t","a","i","n","e","r",":",":"," ","x">>,
     <<".","."," ","c">>}

NoCall ==
    [start |-> -1, node |-> None, from |-> -1, idx |-> 0, st |-> "ok",
     trace |-> <<>>, path |-> "none"]

\* new ParserState(input); new BlockParser(state); parse() entered
InitOf(docs) ==
    /\ lines \in docs
    /\ currentLineIndex = 0
    /\ children = <<>>
    /\ starts = <<>>
    /\ pc = "loop"
    /\ iter = 0
    /\ last = NoCall
    /\ calls = <<>>

Init == InitOf(Docs(GeneralPool, MaxLines))

\* one iteration of "while (hasMoreLines()) { block = parseBlock(); if (block)
\* children.push(block) }".  A call that never returns (st = "hang") leaves
\* the parse inside the call; a call that throws ends the parse.
ParseStep ==
    /\ pc = "loop"
    /\ hasMoreLines(lines, currentLineIndex)
    /\ \E b \in {parseBlock(lines, currentLineIndex)} :
           /\ last' = [start |-> currentLineIndex] @@ b
           /\ iter' = 1 - iter
           /\ pc' = IF b.st = "throw" THEN "thrown" ELSE "loop"
           /\ IF b.st = "ok"
              THEN /\ currentLineIndex' = b.idx
                   /\ IF b.node.type # "none"
                      THEN /\ children' = push(children, b.node)
                           /\ starts' = Append(starts, [at |-> b.from, node |-> b.node])
                      ELSE UNCHANGED <<children, starts>>
              ELSE UNCHANGED <<currentLineIndex, children, starts>>
    /\ UNCHANGED <<lines, calls>>

\* the loop test fails: parse() returns the document
Return ==
    /\ pc = "loop"
    /\ ~hasMoreLines(lines, currentLineIndex)
    /\ pc' = "done"
    /\ UNCHANGED <<lines, currentLineIndex, children, starts, iter, last, calls>>

Next == ParseStep \/ Return

Spec == Init /\ [][Next]_vars

\* the control part of ParseStep: the loop test holds and one more iteration
\* is run
LoopTurn ==
    /\ pc = "loop"
    /\ hasMoreLines(lines, currentLineIndex)
    /\ iter' = 1 - iter

\* the control part of Return
LoopExit ==
    /\ pc = "loop"
    /\ ~hasMoreLines(lines, currentLineIndex)
    /\ pc' = "done"

\* The loop runs on: while the loop test holds another iteration is run, and
\* when it fails parse() returns.  Every step of Next that changes iter is a
\* ParseStep and every step that changes pc to "done" is a Return, so these
\* are weak fairness of ParseStep and of Return, stated over the control
\* variables.
FairSpec == Init /\ [][Next]_vars /\ WF_iter(LoopTurn) /\ WF_pc(LoopExit)

----------------------------------------------------------------------------
(* Claims about the loop of BlockParser.parse and the fallbacks of         *)
(* parseBlock, checked over the texts of GeneralPool.                      *)

\* the line the cursor is on when the returning branch of the last call of
\* parseBlock starts is there and is not blank
OnNonBlankLine ==
    /\ hasLine(lines, last.from, 0)
    /\ ~isBlank(peekLine(lines, last.from, 0))

\* C1: for every input text parse() terminates: the loop reaches an exhausted
\* cursor after finitely many calls of parseBlock and returns the document.
C1_ParseTerminates == <>(pc = "done")

\* C2: whenever parseBlock reaches the paragraph fallback on a non-blank
\* current line, parseParagraph returns a Paragraph node, never none.
C2_ParagraphFallbackReturnsParagraph ==
    (last.path = "paragraph" /\ last.st = "ok" /\ OnNonBlankLine)
        => last.node.type = "paragraph"

\* C3: a construct parser that returns null leaves the cursor at the position
\* it had when the parser was called.
C3_NoMatchConsumesNothing ==
    last.st = "ok" =>
        \A k \in DOMAIN last.trace :
            ~last.trace[k].matched => last.trace[k].after = last.trace[k].before

\* the order of the construct parsers as the specification lists it
FixedOrder ==
    <<"heading", "button", "codeBlock", "grid", "dropdown", "card", "image",
      "container", "admonition", "tabs", "directive", "tableDirective",
      "gridTable", "list", "definitionList">>

\* the line the last call of parseBlock started on has the form
\* ".. container:: ..."
OnContainerLine ==
    /\ last.start >= 0
    /\ literalMatch(peekLine(lines, last.start, 0), N_container).ok

\* C5: parseBlock tries the construct parsers in the fixed order and returns
\* the node of the first one that matches, calling no later parser; a current
\* line of the form ".. container:: ..." is never returned as a Directive node.
C5_FixedParserOrder ==
    /\ Len(last.trace) <= Len(FixedOrder)
    /\ \A k \in DOMAIN last.trace :
           /\ last.trace[k].parser = FixedOrder[k]
           /\ last.trace[k].matched => (k = Len(last.trace) /\ last.path = FixedOrder[k])
    /\ OnContainerLine => last.node.type # "directive"

\* a call of parseBlock on a container line returned the Container found by
\* the eighth parser
C5_Witness ==
    /\ OnContainerLine
    /\ last.path = "container"
    /\ last.node.type = "container"
    /\ Len(last.trace) = 8

\* C8: the children of the Document appear in the order in which their first
\* lines occur in the text: each child is the node of the call that produced
\* it, in the order of the calls, the first lines strictly increase, and no
\* block is emitted twice.
C8_OrderPreserved ==
    /\ Len(children) = Len(starts)
    /\ \A k \in DOMAIN children : children[k] = starts[k].node
    /\ \A k \in 1..(Len(starts) - 1) : starts[k].at < starts[k + 1].at

\* a finished parse whose document holds two different blocks
C8_Witness ==
    /\ pc = "done"
    /\ Len(children) >= 2
    /\ children[1] # children[2]

----------------------------------------------------------------------------
(* Claims about ListParser, checked over the texts of ListPool.            *)

\* lines: blank, two items of one bullet, an item of another bullet, an
\* ordered item, a continuation line, an item at another indentation, an
\* underline as long as an item line, a comment line
ListPool ==
    {<<>>,
     <<"-"," ","a">>,
     <<"-"," ","b">>,
     <<"*"," ","c">>,
     <<"1","."," ","d">>,
     <<" "," ","e">>,
     <<" ","-"," ","f">>,
     <<"-","-","-">>,
     <<".","."," ","c">>}

\* lines after a term and its definition: the empty line, a line of white
\* space, a further term, a further definition
DefinitionPool ==
    {<<>>,
     <<" "," "," ">>,
     <<"U">>,
     <<" "," ","e">>}

DefinitionDocs ==
    {<< <<"T">>, <<" "," ","d">> >> \o b : b \in {<<>>} \cup Docs(DefinitionPool, MaxLines)}

ListInit == InitOf(Docs(ListPool, MaxLines) \cup DefinitionDocs)

ListSpec == ListInit /\ [][Next]_vars

\* the last call of parseBlock returned a List
ListReturned == last.path = "list" /\ last.st = "ok"

\* the lines of the last call's List that are neither blank nor indented
\* beyond its first line
ItemLines ==
    {k \in last.from..(last.idx - 1) :
        /\ ~isBlank(peekLine(lines, k, 0))
        /\ getIndentation(peekLine(lines, k, 0))
               <= getIndentation(peekLine(lines, last.from, 0))}

\* line k opens an item that belongs to the list opened by line s
SameList(s, k) ==
    LET first == matchBullet(peekLine(lines, s, 0))
        this  == matchBullet(peekLine(lines, k, 0))
    IN  /\ this.ok
        /\ getIndentation(peekLine(lines, k, 0)) = getIndentation(peekLine(lines, s, 0))
        /\ this.isOrdered = first.isOrdered
        /\ (~first.isOrdered => this.bullet = first.bullet)

\* the List holds one item per item line, all of its first line's indentation,
\* kind and (unordered) bullet character, and the line after it opens no
\* further item of the same list
MaximalRun ==
    ListReturned =>
        /\ last.node.type = "list"
        /\ last.node.ordered = matchBullet(peekLine(lines, last.from, 0)).isOrdered
        /\ Len(last.node.children) = Cardinality(ItemLines)
        /\ \A k \in ItemLines : SameList(last.from, k)
        /\ hasLine(lines, last.idx, 0) => ~SameList(last.from, last.idx)

\* after a List, the cursor is on a bullet line of the same indentation with
\* another bullet character or of the other kind
SwitchAtCursor ==
    /\ ListReturned
    /\ pc = "loop"
    /\ hasLine(lines, currentLineIndex, 0)
    /\ matchBullet(peekLine(lines, currentLineIndex, 0)).ok
    /\ getIndentation(peekLine(lines, currentLineIndex, 0))
           = getIndentation(peekLine(lines, last.from, 0))

\* the line at the cursor is followed by a run of one of = - ^ " that is at
\* least as long as its trimmed text
UnderlinedAtCursor ==
    /\ truthy(lines, currentLineIndex, 1)
    /\ LET u == trim(peekLine(lines, currentLineIndex, 1))
       IN  /\ Len(u) >= Len(trim(peekLine(lines, currentLineIndex, 0)))
           /\ u[1] \in {"=", "-", "^", "\""}
           /\ sameChar(u)

ExampleList == <<<<"-"," ","a">>, <<"-"," ","b">>, <<" "," ","e">>>>

ExampleItem(text) ==
    [type |-> "list_item",
     children |-> <<[type |-> "paragraph",
                     children |-> <<[type |-> "text", value |-> text]>>]>>]

\* "- a", "- b", "  e" is one unordered List of two items, the second the
\* single Paragraph "b e"
ExampleParsed ==
    (pc = "done" /\ lines = ExampleList) =>
        children = <<[type |-> "list", ordered |-> FALSE,
                      children |-> <<ExampleItem(<<"a">>), ExampleItem(<<"b"," ","e">>)>>]>>

\* C4: parse() has no exception path: the "Invalid list item" throw of
\* parseListItem is never reached.
C4_NoInvalidListItem == pc # "thrown" /\ last.st # "throw"

\* a call of parseBlock in which parseListItem built the items of a List
C4_Witness == ListReturned /\ Len(last.node.children) >= 2

----------------------------------------------------------------------------
(* Claims about HeadingParser, checked over the texts of HeadingPool.      *)

\* lines: the empty line, titles of one and two characters, underlines of
\* one and two characters of the four underline characters, runs of the two
\* overline characters
HeadingPool ==
    {<<>>,
     <<"a">>,
     <<"a","b">>,
     <<"=">>,
     <<"=","=">>,
     <<"-">>,
     <<"^","^">>,
     <<"\"","\"">>,
     <<"#","#">>,
     <<"*","*">>}

HeadingInit == InitOf(Docs(HeadingPool, MaxLines))

HeadingSpec == HeadingInit /\ [][Next]_vars

\* the character of each heading level as the specification gives it
LevelChar ==
    (1 :> "#") @@ (2 :> "*") @@ (3 :> "=") @@ (4 :> "-") @@ (5 :> "^") @@ (6 :> "\"")

\* the last call of parseBlock returned the Heading of HeadingParser
HeadingReturned == last.path = "heading" /\ last.st = "ok"

\* the index of the title line of the last call's Heading
TitleIndex == IF last.node.level \in {1, 2} THEN last.from + 1 ELSE last.from

\* the trimmed underline of the last call's Heading
Underline == trim(peekLine(lines, TitleIndex, 1))

\* the last call started on a title of one character followed by one
\* underline character
OneCharUnderlined ==
    /\ last.start >= 0
    /\ hasLine(lines, last.start, 1)
    /\ Len(trim(peekLine(lines, last.start, 0))) = 1
    /\ trim(peekLine(lines, last.start, 0))[1] \notin {"#", "*"}
    /\ trim(peekLine(lines, last.start, 1)) \in {<<"=">>, <<"-">>, <<"^">>, <<"\"">>}

\* C7: the level of a Heading is fixed by the underline character (overline
\* and underline "#" 1, "*" 2; underline only "=" 3, "-" 4, "^" 5, '"' 6), the
\* trimmed underline is at least as long as the trimmed title, and an
\* underline of one character is valid.
C7_HeadingLevelByUnderline ==
    /\ HeadingReturned =>
           /\ last.node.level \in 1..6
           /\ hasLine(lines, TitleIndex, 1)
           /\ Len(Underline) >= 1
           /\ sameChar(Underline)
           /\ Underline[1] = LevelChar[last.node.level]
           /\ last.node.title = trim(peekLine(lines, TitleIndex, 0))
           /\ Len(Underline) >= Len(last.node.title)
           /\ last.node.level \in {1, 2} =>
                  /\ sameChar(trim(peekLine(lines, last.from, 0)))
                  /\ trim(peekLine(lines, last.from, 0))[1] = LevelChar[last.node.level]
    /\ OneCharUnderlined =>
           /\ HeadingReturned
           /\ LevelChar[last.node.level] = trim(peekLine(lines, last.start, 1))[1]

\* a Heading of level 3 on an underline of one character
C7_Witness ==
    /\ HeadingReturned
    /\ OneCharUnderlined
    /\ Underline = <<"=">>
    /\ last.node.level = 3

----------------------------------------------------------------------------
(* Claims about the comment path of DirectiveParser, checked over the      *)
(* texts of CommentPool.                                                   *)

\* lines: blank, a comment, a reference, a substitution, a "k: v" form, an
\* indented text and an indented underline shorter than it, an underline
\* longer than the openers
CommentPool ==
    {<<>>,
     <<".","."," ","c">>,
     <<".","."," ","_","F","o","o",":">>,
     <<".","."," ","|","x","|"," ","y">>,
     <<".","."," ","k",":"," ","v">>,
     <<" "," ","a","b","c">>,
     <<" "," ","-","-">>,
     <<"=","=","=","=","=","=","=","=","=">>}

CommentInit == InitOf(Docs(CommentPool, MaxLines))

CommentSpec == CommentInit /\ [][Next]_vars

\* the line the last call of parseBlock started on begins with ".. " and is no
\* ".. name::" directive
OnCommentLine ==
    /\ last.start >= 0
    /\ startsWith(trim(peekLine(lines, last.start, 0)), <<".", ".", " ">>)
    /\ ~directiveMatch(peekLine(lines, last.start, 0), DirectiveNameChar).ok

\* C6: a comment, reference, substitution or "k: v" line that is the current
\* line of a call of parseBlock yields exactly one Directive node, whatever
\* lines follow it; ".. _Foo:" gives the Directive "reference" with first
\* argument "Foo".
C6_CommentYieldsDirective ==
    OnCommentLine =>
        /\ last.st = "ok"
        /\ last.node.type = "directive"
        /\ trim(peekLine(lines, last.start, 0)) = <<".",".", " ", "_","F","o","o",":">> =>
               /\ last.node.name = N_reference
               /\ last.node.args[1] = <<"F","o","o">>

----------------------------------------------------------------------------
(* Claims about list-table and flat-table, checked over the texts made of  *)
(* a table directive line and a body over TablePool.                       *)

\* body lines: an empty line, a line of white space, a row marker with its
\* first cell, a further cell, a further empty cell
TablePool ==
    {<<>>,
     <<" "," "," ">>,
     <<" "," "," ","*"," ","-"," ","a">>,
     <<" "," "," "," "," ","-"," ","b">>,
     <<" "," "," "," "," ","-">>}

TableDirectives ==
    {<<".", ".", " ">> \o N_list_table \o <<":", ":">>,
     <<".", ".", " ">> \o N_flat_table \o <<":", ":">>}

TableDocs == {<<d>> \o b : d \in TableDirectives, b \in Docs(TablePool, MaxBody)}

TableInit == InitOf(TableDocs)

TableSpec == TableInit /\ [][Next]_vars

\* the lines after the directive line
Body == Tail(lines)

NonBlank == {k \in 1..Len(Body) : ~isBlank(Body[k])}

\* the number of non-blank body lines before line k
Rank(k) == Cardinality({j \in NonBlank : j < k})

\* a line that opens a row with its first cell: "* - text"
IsRowLine(l) == startsWith(trim(l), <<"*", " ", "-", " ">>)

\* a line that holds a further cell: "- text" or a bare "-"
IsCellLine(l) == startsWith(trim(l), <<"-", " ">>) \/ trim(l) = <<"-">>

RowCount == Cardinality({k \in NonBlank : IsRowLine(Body[k])})

CellCount == Cardinality(NonBlank) \div RowCount

\* The body is RowCount rows of CellCount cells: each row a "* -" line and
\* then its further cells, indented by two more than the row marker; blank
\* lines stand only before a row.
WellFormedBody ==
    /\ RowCount >= 1
    /\ CellCount * RowCount = Cardinality(NonBlank)
    /\ \A k \in NonBlank :
           IF Rank(k) % CellCount = 0
           THEN IsRowLine(Body[k]) /\ getIndentation(Body[k]) = minIndent(Body)
           ELSE IsCellLine(Body[k]) /\ getIndentation(Body[k]) = minIndent(Body) + 2
    /\ \A k \in 1..Len(Body) :
           isBlank(Body[k]) =>
               \E j \in (k + 1)..Len(Body) :
                   /\ IsRowLine(Body[j])
                   /\ \A m \in k..(j - 1) : isBlank(Body[m])

\* the body line of cell c of row r
CellLine(r, c) ==
    Body[CHOOSE k \in NonBlank : Rank(k) = (r - 1) * CellCount + (c - 1)]

\* the children of the cell a body line holds: nothing for a bare "-", the
\* paragraph of its text otherwise
CellChildren(l) ==
    LET text == IF IsRowLine(l) THEN trim(substring(trim(l), 3))
                ELSE trim(substring(trim(l), 1))
    IN  IF text = <<>> THEN <<>>
        ELSE <<[type |-> "paragraph", children |-> <<[type |-> "text", value |-> text]>>]>>

\* C10: a list-table or flat-table body of R rows of C cells, rows optionally
\* separated by blank lines, gives one Table of exactly R rows of C cells each
\* in row-major document order, and no row is left over as a separate List.
C10_TableRowsAndCells ==
    (WellFormedBody /\ pc = "done") =>
        /\ Len(children) = 1
        /\ children[1].type = "table"
        /\ Len(children[1].rows) = RowCount
        /\ \A r \in 1..RowCount :
               /\ Len(children[1].rows[r].cells) = CellCount
               /\ \A c \in 1..CellCount :
                      children[1].rows[r].cells[c].children = CellChildren(CellLine(r, c))

----------------------------------------------------------------------------
(* Claims about table cells, checked over list-table and flat-table        *)
(* bodies over CellPool, grid tables over GridLinePool and csv-table       *)
(* bodies over CsvPool.                                                    *)

\* body lines: a row whose first cell is "..", a row whose first cell opens
\* with a cspan role, a further cell "..", a further cell that opens with an
\* rspan role, a further cell with text
CellPool ==
    {<<" "," "," ","*"," ","-"," ",".",".">>,
     <<" "," "," ","*"," ","-"," ",":","c","s","p","a","n",":",BackQuote,"2",BackQuote," ","a">>,
     <<" "," "," "," "," ","-"," ",".",".">>,
     <<" "," "," "," "," ","-"," ",":","r","s","p","a","n",":",BackQuote,"3",BackQuote," ",".",".">>,
     <<" "," "," "," "," ","-"," ","b">>}

CellDocs == {<<d>> \o b : d \in TableDirectives, b \in Docs(CellPool, MaxBody)}

GridSeparator == <<"+","-","-","+">>

\* lines of a grid table: a separator, a row of the segments ".." and "a", a
\* row of one segment of white space, a row of the segments "" and "b"
GridLinePool ==
    {GridSeparator,
     <<"|",".",".","|","a","|">>,
     <<"|"," ","|">>,
     <<"|","|","b","|">>}

GridDocs == {<<GridSeparator>> \o b : b \in Docs(GridLinePool, MaxLines)}

\* lines of a csv-table body: two fields, a quoted field, a field that opens
\* with a cspan role
CsvPool ==
    {<<" "," "," ","a",",","b">>,
     <<" "," "," ","\"","c","\"">>,
     <<" "," "," ",":","c","s","p","a","n",":",BackQuote,"2",BackQuote," ","a">>}

\* a line with an empty field between two fields, and the option header
\* with two fields
CsvEmptyField == <<" "," "," ","a",",",",","b">>

CsvHeader == <<" "," "," ",":","h","e","a","d","e","r",":"," ","h",","," ","i">>

CsvDocs ==
    {<< <<".", ".", " ">> \o N_csv_table \o <<":", ":">> >> \o b : b \in Docs(CsvPool, MaxLines)}
    \cup {<< <<".", ".", " ">> \o N_csv_table \o <<":", ":">>, h, l >> :
              h \in {CsvHeader, CsvEmptyField}, l \in CsvPool \cup {CsvEmptyField}}

CellInit == InitOf(CellDocs \cup GridDocs \cup CsvDocs)

CellSpec == CellInit /\ [][Next]_vars

\* the text is a list-table or flat-table directive and its body
OnListTable == lines[1] \in TableDirectives

\* the text opens with a grid separator
OnGridTable == lines[1] = GridSeparator

\* the content of the cell a body line holds: the text after its marker
CellContent(l) ==
    IF IsRowLine(l) THEN trim(substring(trim(l), 3)) ELSE trim(substring(trim(l), 1))

\* the content lines of a grid table text, in order
GridRowLines == SelectSeq(lines, LAMBDA l : l[1] = "|")

\* the positions of the bars of a content line, in order
Bars(l) == {p \in 1..Len(l) : l[p] = "|"}

\* the k-th segment of a content line: the trimmed text between its k-th and
\* its next bar
Segment(l, k) ==
    LET from == CHOOSE p \in Bars(l) : Cardinality({q \in Bars(l) : q < p}) = k - 1
        to   == CHOOSE p \in Bars(l) : Cardinality({q \in Bars(l) : q < p}) = k
    IN  trim(SubSeq(l, from + 1, to - 1))

\* the parse is over and its document is one Table
OneTable == pc = "done" /\ Len(children) = 1 /\ children[1].type = "table"

\* C11: a list-table or flat-table cell whose content is exactly ".." and a
\* grid-table segment that is ".." or empty give a TableCell with no children,
\* and the cell still counts as a cell of its row.
C11_EmptyCellConvention ==
    /\ (OnListTable /\ WellFormedBody /\ pc = "done") =>
           /\ OneTable
           /\ Len(children[1].rows) = RowCount
           /\ \A r \in 1..RowCount :
                  /\ Len(children[1].rows[r].cells) = CellCount
                  /\ \A c \in 1..CellCount :
                         CellContent(CellLine(r, c)) = <<".", ".">>
                             => children[1].rows[r].cells[c].children = <<>>
    /\ (OnGridTable /\ GridRowLines # <<>> /\ pc = "done") =>
           /\ OneTable
           /\ Len(children[1].rows) = Len(GridRowLines)
           /\ \A r \in 1..Len(GridRowLines) :
                  /\ Len(children[1].rows[r].cells) = Cardinality(Bars(GridRowLines[r])) - 1
                  /\ \A c \in 1..(Cardinality(Bars(GridRowLines[r])) - 1) :
                         Segment(GridRowLines[r], c) \in {<<".", ".">>, <<>>}
                             => children[1].rows[r].cells[c].children = <<>>

\* a finished list-table of one row of two cells, the first ".." and without
\* children, the second with text
C11_Witness ==
    /\ OnListTable /\ WellFormedBody /\ OneTable
    /\ RowCount = 1 /\ CellCount = 2
    /\ CellContent(CellLine(1, 1)) = <<".", ".">>
    /\ CellContent(CellLine(1, 2)) = <<"b">>
    /\ children[1].rows[1].cells[1].children = <<>>
    /\ children[1].rows[1].cells[2].children # <<>>

\* the text is a csv-table directive and its body
OnCsvTable == lines[1] = <<".", ".", " ">> \o N_csv_table \o <<":", ":">>

\* the length of a role ":name:`d`" of one digit
RoleLen(role) == Len(role) + 5

\* the cell content opens with the role ":name:`d`"
HasRole(text, role) ==
    /\ startsWith(text, <<":">> \o role \o <<":", BackQuote>>)
    /\ Len(text) >= RoleLen(role)
    /\ text[Len(role) + 4] \in Digit
    /\ text[RoleLen(role)] = BackQuote

\* the count a leading role gives, 1 without the role
SpanOf(text, role) ==
    IF HasRole(text, role) THEN decimal(<<text[Len(role) + 4]>>) ELSE 1

\* the cell content without a leading cspan or rspan role
Visible(text) ==
    IF HasRole(text, <<"c","s","p","a","n">>) THEN trim(substring(text, RoleLen(<<"c","s","p","a","n">>)))
    ELSE IF HasRole(text, <<"r","s","p","a","n">>) THEN trim(substring(text, RoleLen(<<"r","s","p","a","n">>)))
    ELSE text

\* the paragraph a cell text is parsed to, nothing for ".."
CellParagraph(text) ==
    IF text = <<".", ".">> THEN <<>>
    ELSE <<[type |-> "paragraph", children |-> <<[type |-> "text", value |-> text]>>]>>

\* a count of a cell, an absent field read as the default 1
SpanField(cell, f) == IF f \in DOMAIN cell THEN cell[f] ELSE 1

\* the cells of a finished well-formed list-table or flat-table carry the
\* counts of their leading roles and the children of the content without them
ListCellsCarryRoleSpans ==
    (OnListTable /\ WellFormedBody /\ OneTable) =>
        \A r \in 1..RowCount :
            \A c \in 1..CellCount :
                LET text == CellContent(CellLine(r, c))
                    cell == children[1].rows[r].cells[c]
                IN  /\ {"cspan", "rspan"} \subseteq DOMAIN cell
                    /\ cell.cspan = SpanOf(text, <<"c","s","p","a","n">>)
                    /\ cell.rspan = SpanOf(text, <<"r","s","p","a","n">>)
                    /\ cell.children = CellParagraph(Visible(text))

\* every line of the csv-table body holds one field, and the first one does
\* not open with ":" (the directive reads such a line as an option)
SingleFieldBody ==
    /\ Body # <<>>
    /\ trim(Body[1])[1] # ":"
    /\ \A k \in 1..Len(Body) : ~isBlank(Body[k]) /\ \A p \in 1..Len(Body[k]) : Body[k][p] # ","

\* the field of a one-field csv line, without its quotes
CsvField(l) ==
    LET f == trim(l)
    IN  IF startsWith(f, <<"\"">>) /\ f[Len(f)] = "\"" THEN SubSeq(f, 2, Len(f) - 1) ELSE f

\* the cells of a finished grid table have both counts 1
GridCellsHaveSpanOne ==
    (OnGridTable /\ OneTable) =>
        \A r \in 1..Len(children[1].rows) :
            \A c \in 1..Len(children[1].rows[r].cells) :
                /\ SpanField(children[1].rows[r].cells[c], "cspan") = 1
                /\ SpanField(children[1].rows[r].cells[c], "rspan") = 1

\* C12: every TableCell of every table grammar has cspan = 1 and rspan = 1
\* unless its content begins with a :cspan:`N` / :rspan:`N` role; then the
\* count is N and the cell is parsed from the content without the role.
\* (An absent count is read as the default 1.)
C12_SpansDefaultToOne ==
    /\ ListCellsCarryRoleSpans
    /\ GridCellsHaveSpanOne
    /\ (OnCsvTable /\ SingleFieldBody /\ pc = "done") =>
           /\ OneTable /\ Len(children[1].rows) = Len(Body)
           /\ \A r \in 1..Len(Body) :
                  LET text == CsvField(Body[r])
                      cell == children[1].rows[r].cells[1]
                  IN  /\ SpanField(cell, "cspan") = SpanOf(text, <<"c","s","p","a","n">>)
                      /\ SpanField(cell, "rspan") = SpanOf(text, <<"r","s","p","a","n">>)
                      /\ cell.children = CellParagraph(Visible(text))

\* C12 as the code has it: the cells of a list-table or flat-table carry the
\* counts of their leading roles, 1 without a role, and are parsed from the
\* content without the roles; the cells of a csv-table and of a grid table
\* carry no count and a csv field is parsed with its role text left in place.
C12_SpansOnlyInListTables ==
    /\ ListCellsCarryRoleSpans
    /\ ((OnGridTable \/ OnCsvTable) /\ OneTable) =>
           \A r \in 1..Len(children[1].rows) :
               \A c \in 1..Len(children[1].rows[r].cells) :
                   DOMAIN children[1].rows[r].cells[c] = {"type", "children"}
    /\ (OnCsvTable /\ SingleFieldBody /\ pc = "done") =>
           /\ OneTable /\ Len(children[1].rows) = Len(Body)
           /\ \A r \in 1..Len(Body) :
                  /\ Len(children[1].rows[r].cells) = 1
                  /\ children[1].rows[r].cells[1].children =
                         <<[type |-> "paragraph",
                            children |-> <<[type |-> "text", value |-> CsvField(Body[r])]>>]>>

\* a finished flat-table or list-table of one row whose first cell opens with
\* :cspan:`2` and has cspan 2 and the paragraph "a", its second cell ".."
C12_Witness ==
    /\ OnListTable /\ WellFormedBody /\ OneTable
    /\ RowCount = 1 /\ CellCount = 2
    /\ HasRole(CellContent(CellLine(1, 1)), <<"c","s","p","a","n">>)
    /\ children[1].rows[1].cells[1].cspan = 2
    /\ children[1].rows[1].cells[1].rspan = 1
    /\ children[1].rows[1].cells[1].children = CellParagraph(<<"a">>)
    /\ children[1].rows[1].cells[2].cspan = 1

\* a finished csv-table whose only field opens with :cspan:`2`
C12_WitnessCsv ==
    /\ OnCsvTable /\ SingleFieldBody /\ OneTable /\ Len(Body) = 2
    /\ HasRole(CsvField(Body[2]), <<"c","s","p","a","n">>)


----------------------------------------------------------------------------
(* Claims about admonitions, checked over texts of directive lines with    *)
(* names in and out of the admonition names, an indented line and a blank  *)
(* line.                                                                   *)

AdmonitionPool ==
    {<<".","."," ","n","o","t","e",":",":">>,
     <<".","."," ","t","i","p",":",":"," ","x">>,
     <<".","."," ","N","o","t","e",":",":">>,
     <<".","."," ","t","o","p","i","c",":",":">>,
     <<" "," "," ",".","."," ","d","a","n","g","e","r",":",":">>,
     <<" "," "," ","b">>,
     <<>>}

\* grid lines: without an argument, with a space for it, with one and two
\* numbers, with a word, with a word between two numbers
GridOpeningPool ==
    {<<".","."," ","g","r","i","d",":",":">>,
     <<".","."," ","g","r","i","d",":",":"," ">>,
     <<".","."," ","g","r","i","d",":",":"," ","2">>,
     <<".","."," ","g","r","i","d",":",":"," ","1"," ","1","2">>,
     <<".","."," ","g","r","i","d",":",":"," ","x">>,
     <<".","."," ","g","r","i","d",":",":"," ","1"," ","x"," ","2">>}

GridOpeningDocs ==
    {<<g>> \o b : g \in GridOpeningPool, b \in {<<>>, << <<>> >>, << <<" "," "," ","b">> >>}}

AdmonitionInit == InitOf(Docs(AdmonitionPool, MaxLines) \cup GridOpeningDocs)

AdmonitionSpec == AdmonitionInit /\ [][Next]_vars

\* the nine names the claim lists
NineKinds ==
    {<<"n","o","t","e">>, <<"a","t","t","e","n","t","i","o","n">>,
     <<"c","a","u","t","i","o","n">>, <<"d","a","n","g","e","r">>,
     <<"e","r","r","o","r">>, <<"h","i","n","t">>,
     <<"i","m","p","o","r","t","a","n","t">>, <<"t","i","p">>,
     <<"w","a","r","n","i","n","g">>}

\* the name of a ".. name::" line, nothing for another line
NameOfLine(l) ==
    LET t == trim(l)
        c == indexOf(t, <<":", ":">>)
    IN  IF startsWith(t, <<".", ".", " ">>) /\ c >= 3 THEN trim(SubSeq(t, 4, c)) ELSE <<>>

\* the line the parser of trace entry t was called on, nothing past the end
LineAt(t) == IF t.before < Len(lines) THEN lines[t.before + 1] ELSE <<>>

\* C13: AdmonitionParser returns an Admonition exactly for a ".. name::" line
\* whose name is one of the nine kinds, with that name as the node's kind;
\* for every other line it returns none with the cursor where it was, and the
\* next parser of the chain is tried on the line.
C13_AdmonitionNames ==
    \A k \in 1..Len(last.trace) :
        last.trace[k].parser = "admonition" =>
            LET t == last.trace[k]
            IN  /\ t.matched <=> NameOfLine(LineAt(t)) \in NineKinds
                /\ t.matched =>
                       /\ k = Len(last.trace)
                       /\ last.node.type = "admonition"
                       /\ last.node.kind = NameOfLine(LineAt(t))
                /\ ~t.matched =>
                       /\ t.after = t.before
                       /\ k < Len(last.trace)
                       /\ last.trace[k + 1].parser = "tabs"
                       /\ last.trace[k + 1].before = t.before

\* the admonition parser was called on ".. topic::", returned none, and the
\* generic directive parser returned the node of the line
C13_Witness ==
    /\ \E k \in 1..Len(last.trace) :
           /\ last.trace[k].parser = "admonition"
           /\ ~last.trace[k].matched
           /\ NameOfLine(LineAt(last.trace[k])) = <<"t","o","p","i","c">>
    /\ last.node.type = "directive"
    /\ last.path = "directive"

\* the admonition parser returned a tip
C13_WitnessKind ==
    /\ last.node.type = "admonition"
    /\ last.node.kind = <<"t","i","p">>
    /\ last.path = "admonition"


----------------------------------------------------------------------------
(* Claims about the options of a table directive, checked over list-table, *)
(* flat-table and csv-table directives followed by option lines and rows.  *)

OptionPool ==
    {<<" "," "," ",":","h","e","a","d","e","r","-","r","o","w","s",":"," ","2">>,
     <<" "," "," ",":","h","e","a","d","e","r","-","r","o","w","s",":"," ","x">>,
     <<" "," "," ",":","s","t","u","b","-","c","o","l","u","m","n","s",":"," ","1">>}

\* the option lines and a row of a list-table, or a line of a csv-table
OptionDocs ==
    {<<d>> \o b : d \in TableDirectives,
                  b \in Docs(OptionPool \cup {<<" "," "," ","*"," ","-"," ","a">>}, MaxLines)}
    \cup
    {<< <<".", ".", " ">> \o N_csv_table \o <<":", ":">> >> \o b :
                  b \in Docs(OptionPool \cup {<<" "," "," ","a">>}, MaxLines)}

OptionInit == InitOf(OptionDocs)

OptionSpec == OptionInit /\ [][Next]_vars

\* the body lines before the first row: the option lines of the directive
OptionLines ==
    LET rows == {k \in 1..Len(Body) : trim(Body[k])[1] # ":"}
    IN  IF rows = {} THEN Body
        ELSE SubSeq(Body, 1, (CHOOSE k \in rows : \A j \in rows : k <= j) - 1)

\* the name of the option line ":name: value"
OptionName(l) == SubSeq(trim(l), 2, indexOf(Tail(trim(l)), <<":">>) + 1)

\* the value of the option line ":name: value"
OptionText(l) == trim(substring(trim(l), indexOf(Tail(trim(l)), <<":">>) + 2))

\* the value of the last option line of the name, nothing when there is none
OptionValue(name) ==
    LET given == {k \in 1..Len(OptionLines) : OptionName(OptionLines[k]) = name}
    IN  IF given = {} THEN <<>>
        ELSE OptionText(OptionLines[CHOOSE k \in given : \A j \in given : j <= k])

\* the integer a value stands for, 0 for a value that is not a number
IntegerOf(v) ==
    IF v # <<>> /\ \A k \in 1..Len(v) : v[k] \in Digit THEN Num(decimal(v)) ELSE Num(0)

\* C14: header_rows and stub_columns of a Table are the integer values of the
\* :header-rows: and :stub-columns: options, 0 when the option is absent or
\* its value is not numeric; a non-numeric value raises no error and yields
\* no count that is not an integer.
C14_CountsAreIntegers ==
    /\ pc # "thrown"
    /\ OneTable =>
           /\ children[1].header_rows = IntegerOf(OptionValue(N_header_rows))
           /\ children[1].stub_columns = IntegerOf(OptionValue(N_stub_columns))


----------------------------------------------------------------------------
(* Claims about tabs, checked over a ".. tabs::" line followed by tab      *)
(* markers at two indentations, text at two indentations and blank lines.  *)

TabsPool ==
    {<<" "," "," ",".","."," ","t","a","b",":",":"," ","A">>,
     <<" "," "," ",".","."," ","g","r","o","u","p","-","t","a","b",":",":"," ","B">>,
     <<" "," "," ",".","."," ","c","o","d","e","-","t","a","b",":",":"," ","p","y">>,
     <<" "," "," "," "," "," ",".","."," ","t","a","b",":",":"," ","C">>,
     <<" "," "," "," "," "," ","x">>,
     <<" "," "," ","y">>,
     <<>>}

TabsDocs == {<< <<".", ".", " ">> \o N_tabs \o <<":", ":">> >> \o b : b \in Docs(TabsPool, MaxLines)}

TabsInit == InitOf(TabsDocs)

TabsSpec == TabsInit /\ [][Next]_vars

\* line k of the text is a tab marker
IsTabMarker(k) == NameOfLine(lines[k]) \in {N_tab, N_group_tab, N_code_tab}

\* the text after the "::" of a marker line
ArgsOfLine(l) == trim(substring(trim(l), indexOf(trim(l), <<":", ":">>) + 2))

\* line k is in the body of the marker on line j: every non-blank line after
\* j up to k is more indented than the marker
OwnedBy(j, k) ==
    /\ j < k
    /\ \A m \in (j + 1)..k :
           isBlank(lines[m]) \/ getIndentation(lines[m]) > getIndentation(lines[j])

\* the markers that are in no other marker's body, in document order
TopMarkers ==
    {k \in 2..Len(lines) : IsTabMarker(k) /\ \A j \in 2..(k - 1) : IsTabMarker(j) => ~OwnedBy(j, k)}

NthTopMarker(n) == CHOOSE k \in TopMarkers : Cardinality({j \in TopMarkers : j < k}) = n - 1

\* the lines the marker on line j owns
OwnedLines(j) ==
    SubSeq(lines, j + 1, j + Cardinality({k \in (j + 1)..Len(lines) : OwnedBy(j, k)}))

\* C15: in a tabs body each tab marker owns the following lines that are
\* more indented than it, up to the next marker at the same or a lower
\* indentation or the first non-blank line that is not more indented; the
\* Tabs node holds one Tab per marker that is in no other marker's body, in
\* document order, and a marker in a tab's body stays in that body.
C15_TabsOwnTheirBodies ==
    pc = "done" =>
        /\ Len(children) = 1
        /\ children[1].type = "tabs"
        /\ Len(children[1].children) = Cardinality(TopMarkers)
        /\ \A n \in 1..Cardinality(TopMarkers) :
               children[1].children[n] =
                   createTab(lines, NameOfLine(lines[NthTopMarker(n)]),
                             ArgsOfLine(lines[NthTopMarker(n)]),
                             OwnedLines(NthTopMarker(n))).tab

\* a finished tabs node of the two tabs A and B, tab A holding the marker C
\* of its body as a directive
C15_Witness ==
    /\ pc = "done"
    /\ Len(lines) = 4
    /\ TopMarkers = {2, 4}
    /\ IsTabMarker(3) /\ OwnedBy(2, 3)
    /\ Len(children[1].children) = 2
    /\ children[1].children[1].title = <<"A">>
    /\ children[1].children[2].title = <<"B">>
    /\ Len(children[1].children[1].children) = 1
    /\ children[1].children[1].children[1].type = "directive"


----------------------------------------------------------------------------
(* Claims about constructs with an indented body, checked over an opening  *)
(* line of each construct followed by an option line, body lines at two    *)
(* indentations, a list in the body, blank lines and a line at the margin. *)

OpeningPool ==
    {<<".","."," ","n","o","t","e",":",":">>,
     <<".","."," ","c","o","n","t","a","i","n","e","r",":",":"," ","c">>,
     <<".","."," ","c","a","r","d",":",":"," ","T">>,
     <<".","."," ","d","r","o","p","d","o","w","n",":",":"," ","T">>,
     <<".","."," ","t","o","p","i","c",":",":"," ","T">>,
     <<"-"," ","i","t","e","m">>,
     <<".","."," ","b","u","t","t","o","n","-","l","i","n","k",":",":"," ","u">>,
     <<".","."," ","f","i","g","u","r","e",":",":"," ","f">>,
     <<".","."," ","c","o","d","e","-","b","l","o","c","k",":",":"," ","p","y">>}

BodyPool ==
    {<<" "," "," ",":","k",":"," ","v">>,
     <<" "," "," ","a">>,
     <<" "," "," "," "," ","b">>,
     <<" "," "," ","-"," ","c">>,
     <<>>,
     <<"x">>}

\* a tabs directive and the marker of its first tab
TabOpening ==
    << <<".", ".", " ">> \o N_tabs \o <<":", ":">>,
       <<" ", ".", ".", " ">> \o N_tab \o <<":", ":", " ", "A">> >>

\* an opening line that is itself indented, and lines more, as much and
\* less indented than it
IndentedOpening == <<" "," ",".","."," ","n","o","t","e",":",":">>

IndentedPool ==
    {<<" "," "," "," "," ","a">>,
     <<" "," ","y">>,
     <<" ","z">>,
     <<>>}

BodyDocs ==
    {<<o>> \o b : o \in OpeningPool, b \in Docs(BodyPool, MaxLines)}
    \cup {TabOpening \o b : b \in Docs(BodyPool, MaxLines)}
    \cup {<<IndentedOpening>> \o b : b \in Docs(IndentedPool, MaxLines)}

BodyInit == InitOf(BodyDocs)

BodySpec == BodyInit /\ [][Next]_vars

\* the first call of parseBlock has returned the construct of line 1
FirstReturned == Len(starts) >= 1 /\ starts[1].at = 0

\* line k reads " :name: value"
IsOptionAt(k) ==
    /\ getIndentation(lines[k]) >= 1
    /\ trim(lines[k])[1] = ":"
    /\ indexOf(Tail(trim(lines[k])), <<":">>) >= 1

\* the first line after the option lines that follow the opening line
AfterOptions ==
    CHOOSE k \in 2..(Len(lines) + 1) :
        /\ \A m \in 2..(k - 1) : IsOptionAt(m)
        /\ k <= Len(lines) => ~IsOptionAt(k)

\* the first line from line `from` on that is neither blank nor more
\* indented than line `open`, the line after the text when there is none
BlockEndOf(open, from) ==
    CHOOSE k \in from..(Len(lines) + 1) :
        /\ \A m \in from..(k - 1) : isBlank(lines[m]) \/ getIndentation(lines[m]) > getIndentation(lines[open])
        /\ k <= Len(lines) => ~isBlank(lines[k]) /\ getIndentation(lines[k]) <= getIndentation(lines[open])

BlockEnd(from) == BlockEndOf(1, from)

\* the body of the construct of line 1: the lines after its options up to
\* the end of the block
RawBody == SubSeq(lines, AfterOptions, BlockEnd(AfterOptions) - 1)

\* the least indentation of the non-blank lines, 0 when all are blank
LeastIndent(ls) ==
    LET ink == {k \in 1..Len(ls) : ~isBlank(ls[k])}
    IN  IF ink = {} THEN 0
        ELSE getIndentation(ls[CHOOSE k \in ink : \A m \in ink : getIndentation(ls[k]) <= getIndentation(ls[m])])

\* the block without its least indentation, blank lines empty
Dedented(ls) ==
    [k \in 1..Len(ls) |-> IF isBlank(ls[k]) THEN <<>> ELSE substring(ls[k], LeastIndent(ls))]

\* the body of the list item of line 1: the text after the bullet and the
\* following lines without the indentation of that text
ItemBody ==
    <<substring(lines[1], 2)>> \o
    [k \in 1..(BlockEnd(2) - 2) |->
        IF isBlank(lines[k + 1]) THEN <<>> ELSE substring(lines[k + 1], 2)]

\* the body of the tab whose marker is line 2
TabBody == SubSeq(lines, 3, BlockEndOf(2, 3) - 1)

\* the children of the document of a text parsed on its own
Reparsed(ls) == ParseDocument(ls).children

\* the nodes a construct holds: the body of a Directive, the children of
\* the other constructs
Held(node) == IF node.type = "directive" THEN node.body ELSE node.children

\* C16: the children of an Admonition, Container, Card, Dropdown, generic
\* Directive, tab and list item are the children of the Document obtained by
\* parsing the construct's dedented body text on its own with a fresh cursor.
C16_ReparseIdempotent ==
    FirstReturned =>
        /\ starts[1].node.type \in {"admonition", "container", "card", "dropdown", "directive"} =>
               Held(starts[1].node) = Reparsed(Dedented(RawBody))
        /\ starts[1].node.type = "list" =>
               /\ Len(starts[1].node.children) = 1
               /\ starts[1].node.children[1].children = Reparsed(ItemBody)
        /\ starts[1].node.type = "tabs" =>
               /\ Len(starts[1].node.children) = 1
               /\ starts[1].node.children[1].children = Reparsed(Dedented(TabBody))

\* an admonition returned with a body of a text line, a blank line and a
\* list item, its children the paragraph and the list
C16_Witness ==
    /\ FirstReturned
    /\ starts[1].node.type = "admonition"
    /\ RawBody = << <<" "," "," ","a">>, <<>>, <<" "," "," ","-"," ","c">> >>
    /\ Len(starts[1].node.children) = 2
    /\ starts[1].node.children[2].type = "list"


----------------------------------------------------------------------------
(* The dedent functions on their own: a body block is drawn from lines at  *)
(* three indentations, an empty line and lines of spaces, and one of the   *)
(* four dedent functions of the parsers is applied to it.                  *)

DedentPool ==
    {<<" "," ","a">>,
     <<" "," "," "," ","b">>,
     <<"c">>,
     <<>>,
     <<" ">>,
     <<" "," "," ">>}

\* the block in lines, no result yet
DedentInit ==
    /\ lines \in Docs(DedentPool, MaxLines)
    /\ currentLineIndex = 0
    /\ children = <<>>
    /\ starts = <<>>
    /\ pc = "block"
    /\ iter = 0
    /\ last = NoCall
    /\ calls = <<>>

\* children becomes the result of the dedent function f names
Applied(f, result) ==
    /\ pc = "block"
    /\ pc' = f
    /\ children' = result
    /\ UNCHANGED <<lines, currentLineIndex, starts, iter, last, calls>>

ApplyDedent == Applied("dedent", dedent(lines))

ApplyDedentDirective == Applied("dedentDirective", dedentDirective(lines))

ApplyDedentTable == Applied("dedentTable", dedentTable(lines))

ApplyDedentGrid == Applied("dedentGrid", dedentGrid(lines))

DedentNext == ApplyDedent \/ ApplyDedentDirective \/ ApplyDedentTable \/ ApplyDedentGrid

DedentSpec == DedentInit /\ [][DedentNext]_vars

\* C17: dedent removes exactly m leading characters from every non-blank
\* line of a body block, m the least indentation of the non-blank lines, and
\* every blank line stays blank.
C17_DedentRemovesLeastIndent ==
    pc \in {"dedent", "dedentDirective", "dedentTable", "dedentGrid"} =>
        /\ Len(children) = Len(lines)
        /\ \A k \in 1..Len(lines) :
               IF isBlank(lines[k]) THEN isBlank(children[k])
               ELSE children[k] = SubSeq(lines[k], LeastIndent(lines) + 1, Len(lines[k]))
        /\ (\E k \in 1..Len(lines) : ~isBlank(lines[k])) =>
               \E k \in 1..Len(lines) : ~isBlank(children[k]) /\ getIndentation(children[k]) = 0

\* the block "    b", " ", "  a" after dedent: "  b", "", "a"
C17_Witness ==
    /\ pc = "dedent"
    /\ lines = << <<" "," "," "," ","b">>, <<" ">>, <<" "," ","a">> >>
    /\ children = << <<" "," ","b">>, <<>>, <<"a">> >>


----------------------------------------------------------------------------
(* Nested admonitions with the calls of BlockParser.parse made explicit:   *)
(* AdmonitionParser.parse creates a ParserState and a BlockParser for the  *)
(* body and calls parse() on it; calls holds the callers that wait for     *)
(* such a call, the innermost last.  Blocks that are not admonitions are   *)
(* parsed as in ParseStep.                                                 *)

MaxDepth == 5

Spaces(n) == [k \in 1..n |-> " "]

KindSeq ==
    <<<<"n","o","t","e">>, <<"w","a","r","n","i","n","g">>, <<"d","a","n","g","e","r">>,
      <<"i","m","p","o","r","t","a","n","t">>, <<"t","i","p">>>>

KindAt(n) == KindSeq[((n - 1) % 5) + 1]

RECURSIVE LevelLines(_, _, _, _, _)
\* the lines of levels n..d of a chain of d admonitions, each in the body of
\* the one before: the directive line, a blank line, for the levels in
\* content a line of text and a blank line, and in the last level the text x
LevelLines(n, d, blank, content, text) ==
    <<Spaces(3 * (n - 1)) \o <<".", ".", " ">> \o KindAt(n) \o <<":", ":">>>>
    \o (IF blank THEN << <<>> >> ELSE <<>>)
    \o (IF n \in content THEN <<Spaces(3 * n) \o <<"c">>, <<>>>> ELSE <<>>)
    \o (IF n < d THEN LevelLines(n + 1, d, blank, content, text)
        ELSE IF text THEN <<Spaces(3 * n) \o <<"x">>>> ELSE <<>>)

NestDocs ==
    {LevelLines(1, d[1], b, c, t) :
        d \in {<<n>> : n \in 1..MaxDepth}, b \in BOOLEAN, c \in SUBSET (1..MaxDepth), t \in BOOLEAN}

NestInit == InitOf(NestDocs)

\* the parsers parseBlock tries before the admonition parser
BeforeAdmonition == (CHOOSE k \in 1..Len(ParserOrder) : ParserOrder[k] = "admonition") - 1

\* AdmonitionParser.parse finds its pattern and one of its kinds in the line at i
admonitionOpens(ls, i) ==
    /\ truthy(ls, i, 0)
    /\ directiveMatch(peekLine(ls, i, 0), AdmonitionNameChar).ok
    /\ directiveMatch(peekLine(ls, i, 0), AdmonitionNameChar).name \in ADMONITION_TYPES

RECURSIVE blockOrCall(_, _, _, _, _)
\* parseBlock on a line that is not blank, with the call of
\* AdmonitionParser.parse left to the caller: phase 1 tries the parsers
\* before the admonition parser; where that parser finds its line the result
\* has the path "call"; otherwise phase 2 tries the parsers after it and
\* then the section or the paragraph
blockOrCall(ls, phase, from, i, trace) ==
    TheOne({ IF Returns(c) THEN c
             ELSE IF phase = 2 THEN sectionOrParagraph(ls, peekLine(ls, from, 0), c.idx, c.trace)
             ELSE IF admonitionOpens(ls, c.idx) THEN [c EXCEPT !.path = "call"]
             ELSE blockOrCall(ls, 2, from, c.idx,
                              Append(c.trace, [parser |-> "admonition", before |-> c.idx,
                                               after |-> c.idx, matched |-> FALSE]))
             : c \in {tryParsers(ls,
                                 IF phase = 1 THEN 1 ELSE BeforeAdmonition + 2,
                                 IF phase = 1 THEN BeforeAdmonition ELSE Len(ParserOrder),
                                 i, trace)} })

\* AdmonitionParser.parse on the line at, up to its call of parse() on the
\* body: the caller waits with its lines, the cursor after the body, its
\* children and the kind and options of the admonition.  Without body lines
\* the admonition is returned at once.
CallAdmonition(at) ==
    /\ \E name \in {directiveMatch(peekLine(lines, at, 0), AdmonitionNameChar).name} :
       \E b \in {indentedBlock(lines, at + 1, getIndentation(peekLine(lines, at, 0)))} :
           IF Len(b.bodyLines) > 0
           THEN /\ calls' = Append(calls, [lines |-> lines, idx |-> b.idx, children |-> children,
                                           kind |-> name, options |-> b.options])
                /\ lines' = dedent(b.bodyLines)
                /\ currentLineIndex' = 0
                /\ children' = <<>>
           ELSE /\ children' = push(children, withOptions([type |-> "admonition", kind |-> name,
                                                           children |-> <<>>], b.options))
                /\ currentLineIndex' = b.idx
                /\ UNCHANGED <<lines, calls>>
    /\ iter' = 1 - iter
    /\ UNCHANGED <<starts, pc, last>>

\* parse() on a body returns: AdmonitionParser.parse returns the admonition
\* with the children of the body, and the waiting caller pushes it
ReturnAdmonition ==
    /\ pc = "loop"
    /\ ~hasMoreLines(lines, currentLineIndex)
    /\ calls # <<>>
    /\ LET c == calls[Len(calls)]
       IN  /\ lines' = c.lines
           /\ currentLineIndex' = c.idx
           /\ children' = push(c.children, withOptions([type |-> "admonition", kind |-> c.kind,
                                                        children |-> children], c.options))
           /\ calls' = SubSeq(calls, 1, Len(calls) - 1)
    /\ iter' = 1 - iter
    /\ UNCHANGED <<starts, pc, last>>

\* the rest of an iteration of the loop of parse() on a block b that is no
\* admonition
NestStep(b) ==
    /\ last' = [start |-> currentLineIndex] @@ b
    /\ iter' = 1 - iter
    /\ pc' = IF b.st = "throw" THEN "thrown" ELSE "loop"
    /\ IF b.st = "ok"
       THEN /\ currentLineIndex' = b.idx
            /\ IF b.node.type # "none"
               THEN /\ children' = push(children, b.node)
                    /\ starts' = Append(starts, [at |-> b.from, node |-> b.node])
               ELSE UNCHANGED <<children, starts>>
       ELSE UNCHANGED <<currentLineIndex, children, starts>>
    /\ UNCHANGED <<lines, calls>>

\* an iteration of the loop of parse(): parseBlock on the line at the cursor
NestBlock ==
    /\ pc = "loop"
    /\ hasMoreLines(lines, currentLineIndex)
    /\ \E b \in {IF isBlank(peekLine(lines, currentLineIndex, 0))
                 THEN BlockResult(NoMatch(currentLineIndex + 1), currentLineIndex, <<>>, "blank")
                 ELSE blockOrCall(lines, 1, currentLineIndex, currentLineIndex, <<>>)} :
           IF b.path = "call" THEN CallAdmonition(b.idx) ELSE NestStep(b)

\* the outermost parse() returns
NestReturn == calls = <<>> /\ Return

NestNext == NestBlock \/ ReturnAdmonition \/ NestReturn

NestSpec == NestInit /\ [][NestNext]_vars

\* the directive lines of the text
DirectiveLines == {k \in 1..Len(lines) : NameOfLine(lines[k]) \in NineKinds}

Depth == Cardinality(DirectiveLines)

\* level n has the line of text c in its body
HasContent(n) == \E k \in 1..Len(lines) : lines[k] = Spaces(3 * n) \o <<"c">>

\* the last level has the line of text x in its body
HasText == \E k \in 1..Len(lines) : lines[k] = Spaces(3 * Depth) \o <<"x">>

ParagraphOf(text) ==
    [type |-> "paragraph", children |-> <<[type |-> "text", value |-> text]>>]

RECURSIVE ChainFrom(_)
\* the admonition of level n with the levels below it
ChainFrom(n) ==
    [type |-> "admonition", kind |-> KindAt(n),
     children |-> (IF HasContent(n) THEN <<ParagraphOf(<<"c">>)>> ELSE <<>>)
                  \o (IF n < Depth THEN <<ChainFrom(n + 1)>>
                      ELSE IF HasText THEN <<ParagraphOf(<<"x">>)>> ELSE <<>>)]

\* C18: a chain of admonitions, each nested in the body of the one before,
\* of a depth up to MaxDepth, gives a chain of Admonition nodes of the same
\* depth, each the child of the level above, with the kinds note, warning,
\* danger, important, tip level by level.
C18_NestedKindsPreserved ==
    (pc = "done" /\ calls = <<>>) => children = <<ChainFrom(1)>>

\* the finished parse of a chain of depth 5 whose fifth level is a tip
C18_Witness ==
    /\ pc = "done"
    /\ Depth = 5
    /\ HasText /\ HasContent(1)
    /\ Len(children) = 1
    /\ children[1].kind = KindAt(1)
    /\ children[1].children[2].children[1].children[1].children[1].kind = <<"t","i","p">>
    /\ children[1].children[2].children[1].children[1].children[1].children = <<ParagraphOf(<<"x">>)>>


----------------------------------------------------------------------------
(* The line cursor on its own: ParserState over a text of at most MaxLines *)
(* lines, with peekLine and consumeLine called in any order.  last holds   *)
(* the last call: the operation, its offset, the cursor before it and what *)
(* it returned.                                                            *)

MaxOffset == 2

NullLine == [null |-> TRUE, line |-> <<>>]

LineOf(l) == [null |-> FALSE, line |-> l]

\* peekLine(offset) with its null
peekLineOrNull(ls, i, offset) ==
    IF i + offset >= Len(ls) THEN NullLine ELSE LineOf(ls[i + offset + 1])

\* a consumeLine that returns the line and leaves the cursor
consumeLineStaying(ls, i) ==
    IF ~hasMoreLines(ls, i) THEN [result |-> NullLine, idx |-> i]
    ELSE [result |-> LineOf(ls[i + 1]), idx |-> i]

\* consumeLine(): what it returns and the cursor after it
consumeLine(ls, i) ==
    IF ~hasMoreLines(ls, i) THEN [result |-> NullLine, idx |-> i]
    ELSE [result |-> LineOf(ls[i + 1]), idx |-> i + 1]

\* new ParserState(input)
CursorInit ==
    /\ lines \in Docs({<<>>, <<"a">>, <<" ", "b">>}, MaxLines)
    /\ currentLineIndex = 0
    /\ children = <<>>
    /\ starts = <<>>
    /\ pc = "cursor"
    /\ iter = 0
    /\ last = [op |-> "new", offset |-> 0, before |-> 0, result |-> NullLine]
    /\ calls = <<>>

PeekLineCall ==
    /\ pc = "cursor"
    /\ \E offset \in 0..MaxOffset :
           last' = [op |-> "peekLine", offset |-> offset, before |-> currentLineIndex,
                    result |-> peekLineOrNull(lines, currentLineIndex, offset)]
    /\ UNCHANGED <<lines, currentLineIndex, children, starts, pc, iter, calls>>

ConsumeLineCall ==
    /\ pc = "cursor"
    /\ last' = [op |-> "consumeLine", offset |-> 0, before |-> currentLineIndex,
                result |-> consumeLine(lines, currentLineIndex).result]
    /\ currentLineIndex' = consumeLine(lines, currentLineIndex).idx
    /\ UNCHANGED <<lines, children, starts, pc, iter, calls>>

CursorNext == PeekLineCall \/ ConsumeLineCall

CursorSpec == CursorInit /\ [][CursorNext]_vars

\* what the last call returned and where it left the cursor
CursorCallsRight ==
    /\ currentLineIndex \in 0..Len(lines)
    /\ last.op = "peekLine" =>
           /\ currentLineIndex = last.before
           /\ last.result.null <=> last.before + last.offset >= Len(lines)
           /\ ~last.result.null => last.result.line = lines[last.before + last.offset + 1]
    /\ last.op = "consumeLine" =>
           IF last.before < Len(lines)
           THEN /\ last.result = LineOf(lines[last.before + 1])
                /\ currentLineIndex = last.before + 1
           ELSE /\ last.result.null
                /\ currentLineIndex = last.before

\* C19: peekLine(offset) leaves the cursor where it is and returns none
\* exactly when the cursor plus the offset is at or past the number of
\* lines; consumeLine returns the current line and advances the cursor by
\* one when lines remain, and returns none and leaves the cursor when none
\* remain; the cursor never decreases and stays within 0..number of lines.
C19_LineCursor ==
    /\ []CursorCallsRight
    /\ [][currentLineIndex' >= currentLineIndex]_vars

\* consumeLine was called with the cursor on the last of three lines: it
\* returned the line and the cursor is past the end
C19_Witness ==
    /\ Len(lines) = 3
    /\ last.op = "consumeLine"
    /\ last.before = 2
    /\ last.result = LineOf(lines[3])
    /\ currentLineIndex = 3

\* peekLine(1) was called with the cursor on the last line and returned none
C19_WitnessPeek ==
    /\ last.op = "peekLine"
    /\ last.offset = 1
    /\ last.before = Len(lines) - 1
    /\ last.result.null

----------------------------------------------------------------------------
(* The cursor after a construct with an indented body, under BodySpec: the *)
(* first call of parseBlock is on the opening line, line 1 of the text.    *)

\* the nodes of the parsers that collect an indented body
BlockKinds ==
    {"admonition", "container", "card", "dropdown", "directive",
     "button-link", "button-ref", "figure", "code-block"}

\* the first call of parseBlock has just returned a node of these parsers
BlockReturned ==
    /\ last.start = 0
    /\ last.st = "ok"
    /\ last.node.type \in BlockKinds

\* line k of the text is blank or more indented than the opening line
InBody(k) == isBlank(lines[k]) \/ getIndentation(lines[k]) > getIndentation(lines[1])

\* C20: after the Admonition, Container, Card, Dropdown, generic Directive,
\* Button, Figure or CodeBlock parser returns a node, the cursor is at the
\* end of the text or at a line that is not blank and not more indented
\* than the opening line, and every line between the opening line and the
\* cursor is an option line directly after the opening line, a blank line
\* or a line more indented than the opening line.
C20_CursorAfterBody ==
    BlockReturned =>
        /\ currentLineIndex = last.idx
        /\ currentLineIndex \in 1..Len(lines)
        /\ currentLineIndex < Len(lines) =>
               /\ ~isBlank(lines[currentLineIndex + 1])
               /\ getIndentation(lines[currentLineIndex + 1]) <= getIndentation(lines[1])
        /\ \A k \in 2..currentLineIndex : (k < AfterOptions /\ IsOptionAt(k)) \/ InBody(k)

\* a figure returned with an option line and a body line behind it, the
\* cursor on the line x that follows them
C20_Witness ==
    /\ BlockReturned
    /\ last.node.type = "figure"
    /\ Len(lines) = 4
    /\ IsOptionAt(2)
    /\ lines[3] = <<" "," "," ","a">>
    /\ lines[4] = <<"x">>
    /\ currentLineIndex = 3

\* a code block returned after a skipped blank line and a body line, the
\* cursor at the end of the text
C20_WitnessEnd ==
    /\ BlockReturned
    /\ last.node.type = "code-block"
    /\ Len(lines) = 3
    /\ isBlank(lines[2])
    /\ lines[3] = <<" "," "," ","a">>
    /\ currentLineIndex = 3

\* an admonition whose opening line is indented by two returned with the
\* cursor on a line indented by one
C20_WitnessIndented ==
    /\ BlockReturned
    /\ lines[1] = IndentedOpening
    /\ Len(lines) = 3
    /\ lines[2] = <<" "," "," "," "," ","a">>
    /\ lines[3] = <<" ","z">>
    /\ currentLineIndex = 2

----------------------------------------------------------------------------
(* The options field of the constructs with an indented body, under        *)
(* BodySpec.                                                               *)

\* the nodes of the claim: the code block is not among them
OptionKinds == BlockKinds \ {"code-block"}

\* at least one option line follows the opening line
OptionCaptured == AfterOptions > 2

HasOptions(node) == "options" \in DOMAIN node

\* C21: the node of an Admonition, Container, Card, Dropdown, generic
\* Directive, Button or Figure has a field options only if at least one
\* option line was captured; without an option line after the opening line
\* the field is absent.
C21_OptionsOnlyIfCaptured ==
    (BlockReturned /\ last.node.type \in OptionKinds) =>
        (HasOptions(last.node) => OptionCaptured)

\* C21 as the code has it: the field is there exactly when an option line
\* was captured, except in the generic Directive, which always has the
\* field, with an empty map when no option line was captured.
C21_OptionsOnlyIfCapturedButDirective ==
    (BlockReturned /\ last.node.type \in OptionKinds) =>
        IF last.node.type = "directive"
        THEN /\ HasOptions(last.node)
             /\ DOMAIN last.node.options = {} <=> ~OptionCaptured
        ELSE /\ HasOptions(last.node) <=> OptionCaptured
             /\ HasOptions(last.node) => DOMAIN last.node.options # {}

\* a card returned with the option line k behind its opening line, and k in
\* its options
C21_Witness ==
    /\ BlockReturned
    /\ last.node.type = "card"
    /\ OptionCaptured
    /\ HasOptions(last.node)
    /\ last.node.options = (<<"k">> :> <<"v">>)

\* a generic directive returned without an option line, its options empty
C21_WitnessDirective ==
    /\ BlockReturned
    /\ last.node.type = "directive"
    /\ ~OptionCaptured
    /\ HasOptions(last.node)
    /\ DOMAIN last.node.options = {}

\* a dropdown returned without an option line and without the field
C21_WitnessAbsent ==
    /\ BlockReturned
    /\ last.node.type = "dropdown"
    /\ Len(lines) >= 2
    /\ ~OptionCaptured
    /\ ~HasOptions(last.node)

----------------------------------------------------------------------------
(* The body of a table directive, under TableSpec: the first call of       *)
(* parseBlock is on the directive line, line 1 of the text.                *)

\* the first call of parseBlock has just returned a Table
TableReturned ==
    /\ last.start = 0
    /\ last.st = "ok"
    /\ last.node.type = "table"

\* the first line from line `from` on that is not blank, the line after the
\* text when there is none
FirstNonBlank(from) ==
    CHOOSE k \in from..(Len(lines) + 1) :
        /\ \A m \in from..(k - 1) : isBlank(lines[m])
        /\ k <= Len(lines) => ~isBlank(lines[k])

\* the first line after the option lines that follow the directive line
AfterTableOptions ==
    CHOOSE k \in 2..(Len(lines) + 1) :
        /\ \A m \in 2..(k - 1) : ~isBlank(lines[m]) /\ IsOptionAt(m)
        /\ k <= Len(lines) => isBlank(lines[k]) \/ ~IsOptionAt(k)

\* the first line of the body
BodyStart == FirstNonBlank(AfterTableOptions)

\* the indentation of the first line of the body
Baseline == getIndentation(lines[BodyStart])

\* the first line of the body on that is not blank and less indented than
\* the baseline, the line after the text when there is none
TableBodyEnd ==
    CHOOSE k \in BodyStart..(Len(lines) + 1) :
        /\ \A m \in BodyStart..(k - 1) :
               isBlank(lines[m]) \/ getIndentation(lines[m]) >= Baseline
        /\ k <= Len(lines) => ~isBlank(lines[k]) /\ getIndentation(lines[k]) < Baseline

\* C22: after the options and the blank lines, the indentation of the first
\* non-blank line is the baseline; every following line at least that
\* indented and every blank line in between goes into the table body, and
\* the collection stops at the first non-blank line with a smaller
\* indentation, which stays for the dispatcher: when the Table is returned
\* the cursor is on that line, or at the end of the text.
C22_TableBodyCollection ==
    TableReturned => currentLineIndex = TableBodyEnd - 1

----------------------------------------------------------------------------
(* The rows of a csv-table, under CellSpec.                                *)

\* the option lines after the directive line that set the option header
HeaderLines ==
    {k \in 2..(AfterTableOptions - 1) :
        startsWith(trim(lines[k]), <<":","h","e","a","d","e","r",":">>)}

\* the text of the option header
HeaderText == trim(substring(trim(lines[CHOOSE k \in HeaderLines : TRUE]), 8))

\* the texts that become rows: the option header when present, then the
\* non-blank lines after the options
RowTexts ==
    (IF HeaderLines # {} THEN <<HeaderText>> ELSE <<>>)
    \o SelectSeq([k \in 1..(Len(lines) + 1 - AfterTableOptions) |->
                     trim(lines[AfterTableOptions + k - 1])],
                 LAMBDA l : l # <<>>)

\* the positions of the commas of a text
Commas(l) == {p \in 1..Len(l) : l[p] = ","}

\* field n of a text, counted from 1: the text between comma n - 1 and comma n
FieldOf(l, n) ==
    LET from == IF n = 1 THEN 0
                ELSE CHOOSE p \in Commas(l) : Cardinality({q \in Commas(l) : q < p}) = n - 2
        to   == IF n = Cardinality(Commas(l)) + 1 THEN Len(l) + 1
                ELSE CHOOSE p \in Commas(l) : Cardinality({q \in Commas(l) : q < p}) = n - 1
    IN  SubSeq(l, from + 1, to - 1)

\* the first call of parseBlock has just returned the Table of a csv-table
CsvReturned == OnCsvTable /\ TableReturned

\* C23: the option header, when present, is the first row of a csv-table
\* and each non-blank body line is one further row, in order; each row has
\* one cell per comma-separated field of its text, the field trimmed and
\* without its surrounding double quotes, so a text with k commas gives
\* k + 1 cells.
C23_CsvRowsAndCells ==
    CsvReturned =>
        /\ Len(last.node.rows) = Len(RowTexts)
        /\ \A r \in 1..Len(RowTexts) :
               /\ r <= Len(last.node.rows)
               /\ Len(last.node.rows[r].cells) = Cardinality(Commas(RowTexts[r])) + 1
               /\ \A c \in 1..(Cardinality(Commas(RowTexts[r])) + 1) :
                      /\ c <= Len(last.node.rows[r].cells)
                      /\ last.node.rows[r].cells[c].children
                             = Reparsed(<<CsvField(FieldOf(RowTexts[r], c))>>)

\* the same for texts without an empty field
NoEmptyField ==
    \A r \in 1..Len(RowTexts) :
        \A c \in 1..(Cardinality(Commas(RowTexts[r])) + 1) : trim(FieldOf(RowTexts[r], c)) # <<>>

CsvRowsWhenNoEmptyField == NoEmptyField => C23_CsvRowsAndCells

----------------------------------------------------------------------------
(* Headings of the underline-only form, under HeadingSpec.                 *)

\* the last call of parseBlock started on a line that is not blank and whose
\* next line is a run of "=", "-", "^" or '"' at least as long as it
UnderlinedAtStart ==
    /\ last.start >= 0
    /\ hasLine(lines, last.start, 1)
    /\ ~isBlank(peekLine(lines, last.start, 0))
    /\ ~isBlank(peekLine(lines, last.start, 1))
    /\ sameChar(trim(peekLine(lines, last.start, 1)))
    /\ trim(peekLine(lines, last.start, 1))[1] \in {"=", "-", "^", "\""}
    /\ Len(trim(peekLine(lines, last.start, 1))) >= Len(trim(peekLine(lines, last.start, 0)))

\* the first line after the underline that is not blank, as a cursor
AfterUnderline ==
    CHOOSE k \in (last.start + 2)..Len(lines) :
        /\ \A m \in (last.start + 2)..(k - 1) : isBlank(lines[m + 1])
        /\ k < Len(lines) => ~isBlank(lines[k + 1])

\* C24: whenever the current line is not blank and the next line is a run of
\* one of "=", "-", "^", '"' at least as long as it, parseBlock returns a
\* Heading of level 3 to 6 with the current line as its title and consumes
\* the title, the underline and the blank lines after it, whatever the
\* title is and whether or not a blank line follows the underline.
C24_UnderlineHeadingAlways ==
    UnderlinedAtStart =>
        /\ last.st = "ok"
        /\ last.node.type = "heading"
        /\ last.node.level \in 3..6
        /\ LevelChar[last.node.level] = trim(peekLine(lines, last.start, 1))[1]
        /\ last.node.title = trim(peekLine(lines, last.start, 0))
        /\ last.idx = AfterUnderline

\* the same up to the cursor: the title, the underline and the lines of
\* white space after it are consumed, an empty line is not
HeadingWhenTitleNoOverline ==
    (UnderlinedAtStart /\ ~isOverline(peekLine(lines, last.start, 0)).ok) =>
        /\ last.st = "ok"
        /\ last.node.type = "heading"
        /\ last.node.level \in 3..6
        /\ LevelChar[last.node.level] = trim(peekLine(lines, last.start, 1))[1]
        /\ last.node.title = trim(peekLine(lines, last.start, 0))
        /\ last.idx = skipWhile(lines, last.start + 2, isBlankTruthy)

----------------------------------------------------------------------------
(* The continuation lines of a comment, under CommentSpec.                 *)

\* the last call of parseBlock returned the Directive of a comment line
CommentReturned ==
    /\ OnCommentLine
    /\ last.st = "ok"
    /\ last.node.type = "directive"

\* C25: the continuation lines of a comment, reference or substitution are
\* collected as the bodies of the constructs with an indented body are: the
\* body is the run of following lines more indented than the opener with
\* the blank lines between them, and afterwards the cursor is at the end of
\* the text or on a line that is not blank and at most as indented as the
\* opener.
C25_CommentBodyDiscipline ==
    CommentReturned =>
        last.idx = BlockEndOf(last.start + 1, last.start + 2) - 1

\* the continuation as the code collects it: a blank line belongs to the
\* body only when the line after it is more indented than the opener
CommentContinues(k) ==
    IF isBlank(lines[k])
    THEN k < Len(lines) /\ getIndentation(lines[k + 1]) > getIndentation(lines[last.start + 1])
    ELSE getIndentation(lines[k]) > getIndentation(lines[last.start + 1])

CommentBodyByLookahead ==
    CommentReturned =>
        /\ \A k \in (last.start + 2)..last.idx : CommentContinues(k)
        /\ last.idx < Len(lines) => ~CommentContinues(last.idx + 1)

----------------------------------------------------------------------------
(* Definition lists, under ListSpec: the texts of DefinitionDocs open with *)
(* a term and its definition.                                              *)

\* the first call of parseBlock has just returned a DefinitionList
DefinitionListReturned ==
    /\ last.start = 0
    /\ last.st = "ok"
    /\ last.node.type = "definition_list"

\* line k is a term: it is not blank and the line after it is not blank and
\* more indented
PairAt(k) ==
    /\ k + 1 <= Len(lines)
    /\ ~isBlank(lines[k])
    /\ ~isBlank(lines[k + 1])
    /\ getIndentation(lines[k + 1]) > getIndentation(lines[k])

\* the first line after the definition of the term of line k: the first
\* line that is blank or less indented than the first line of the definition
DefinitionEnd(k) ==
    CHOOSE e \in (k + 2)..(Len(lines) + 1) :
        /\ \A m \in (k + 2)..(e - 1) :
               ~isBlank(lines[m]) /\ getIndentation(lines[m]) >= getIndentation(lines[k + 1])
        /\ e <= Len(lines) =>
               isBlank(lines[e]) \/ getIndentation(lines[e]) < getIndentation(lines[k + 1])

RECURSIVE PairsFrom(_)
\* the number of pairs of the run of pairs that starts at line k
PairsFrom(k) == IF PairAt(k) THEN 1 + PairsFrom(DefinitionEnd(k)) ELSE 0

RECURSIVE PairRunEnd(_)
\* the line at which the scan for further pairs stops
PairRunEnd(k) == IF PairAt(k) THEN PairRunEnd(DefinitionEnd(k)) ELSE k

\* C26: a DefinitionList is a run of pairs of a term line and a non-blank,
\* more indented line directly after it; the scan for further pairs stops
\* at the first line that is blank or is no term followed by a more indented
\* line, so pairs separated by a blank line are not in the same
\* DefinitionList, and a DefinitionList has at least one item.
C26_DefinitionListIsRunOfPairs ==
    DefinitionListReturned =>
        /\ Len(last.node.children) >= 1
        /\ Len(last.node.children) = PairsFrom(1)
        /\ last.idx = PairRunEnd(1) - 1

\* the same for texts without a line of white space: the empty line ends
\* the scan
NoWhiteLine == \A k \in 1..Len(lines) : isBlank(lines[k]) => lines[k] = <<>>

DefinitionListStopsAtEmptyLine == NoWhiteLine => C26_DefinitionListIsRunOfPairs

\* a DefinitionList of two items whose pairs are separated by a line of
\* white space
JoinedAcrossWhiteLine ==
    /\ DefinitionListReturned
    /\ lines = << <<"T">>, <<" "," ","d">>, <<" "," "," ">>, <<"U">>, <<" "," ","e">> >>
    /\ Len(last.node.children) = 2
    /\ last.idx = 5

----------------------------------------------------------------------------
(* Paragraphs, under ListSpec.                                             *)

\* the last call of parseBlock returned the Paragraph of parseParagraph
ParagraphReturned ==
    /\ last.start >= 0
    /\ last.path = "paragraph"
    /\ last.st = "ok"
    /\ last.node.type = "paragraph"

\* a trimmed line that opens with a bullet and white space
BulletLooking(t) ==
    \/ Len(t) >= 2 /\ t[1] \in {"*", "+", "-"} /\ t[2] = " "
    \/ \E n \in 1..(Len(t) - 2) :
           /\ t[n + 1] = "." /\ t[n + 2] = " "
           /\ \/ \A p \in 1..n : t[p] \in Digit
              \/ n = 1 /\ t[1] \in Lower \cup Upper \cup {"#"}

\* line k of the text is not taken into a paragraph
StopsParagraph(k) ==
    \/ isBlank(lines[k])
    \/ k < Len(lines) /\ isSectionUnderline(lines[k + 1])
    \/ startsWith(trim(lines[k]), <<".", ".", " ">>)
    \/ BulletLooking(trim(lines[k]))

\* the first line from the start of the last call on that is not taken, the
\* line after the text when there is none
ParagraphEnd ==
    CHOOSE e \in (last.start + 1)..(Len(lines) + 1) :
        /\ \A m \in (last.start + 1)..(e - 1) : ~StopsParagraph(m)
        /\ e <= Len(lines) => StopsParagraph(e)

\* C27: the text of a Paragraph is the trimmed lines from the current line
\* on, joined by single spaces in their order, up to the first line that is
\* blank, is followed by a section underline, starts with ".. " or starts
\* with a list bullet; that line is not in the Paragraph and is not
\* consumed.
C27_ParagraphText ==
    ParagraphReturned =>
        /\ ParagraphEnd > last.start + 1
        /\ last.idx = ParagraphEnd - 1
        /\ last.node.children =
               <<[type |-> "text",
                  value |-> joinWith([k \in 1..(ParagraphEnd - 1 - last.start) |->
                                         trim(lines[last.start + k])], <<" ">>)]>>

\* a Paragraph of two lines that ends before a line with a bullet
C27_Witness ==
    /\ ParagraphReturned
    /\ last.start = 0
    /\ lines = << <<" "," ","e">>, <<" "," ","e">>, <<"-"," ","a">> >>
    /\ last.node.children = <<[type |-> "text", value |-> <<"e"," ","e">>]>>
    /\ currentLineIndex = 2

\* a Paragraph that ends before a comment line
C27_WitnessComment ==
    /\ ParagraphReturned
    /\ last.start = 0
    /\ Len(lines) = 2
    /\ lines[2] = <<".","."," ","c">>
    /\ currentLineIndex = 1

----------------------------------------------------------------------------
(* The columns of a grid, under AdmonitionSpec: the texts of               *)
(* GridOpeningDocs open with a grid line.                                  *)

\* the first call of parseBlock was on a ".. grid::" line
GridLineAtStart ==
    /\ last.start = 0
    /\ startsWith(lines[1], <<".","."," ","g","r","i","d",":",":">>)

\* the argument of the grid line
GridArgument == substring(lines[1], 9)

\* a word of digits
IsNumber(w) == w # <<>> /\ \A p \in 1..Len(w) : w[p] \in Digit

\* the numbers among the words of the argument, in order, and 1 when there
\* is none
ExpectedColumns ==
    LET numbers == SelectSeq(splitArgs(GridArgument), IsNumber)
    IN  IF numbers = <<>> THEN <<Num(1)>>
        ELSE [k \in 1..Len(numbers) |-> Num(decimal(numbers[k]))]

\* C28: a ".. grid::" line always gives a Grid whose columns are the
\* integers of its argument, split at white space, in order, and <<1>> when
\* the argument has no number or is empty.
C28_GridColumns ==
    GridLineAtStart =>
        /\ last.st = "ok"
        /\ last.node.type = "grid"
        /\ last.node.columns = ExpectedColumns

\* the same for a grid line with at least one character after "::"
GridColumnsWhenArgument == GridArgument # <<>> => C28_GridColumns

----------------------------------------------------------------------------
(* The table directive lines and the generic directive parser, under       *)
(* CellSpec.                                                               *)

\* a ".. name::" line whose name is list-table, flat-table or csv-table
IsTableLine(l) == NameOfLine(l) \in {N_list_table, N_flat_table, N_csv_table}

\* C29: on a ".. list-table::", ".. flat-table::" or ".. csv-table::" line
\* the generic DirectiveParser returns none with the cursor where it was and
\* the table directive parser is tried next on the same line; parseBlock
\* never returns a generic Directive for such a line.
C29_TableLinesLeftToTableParser ==
    /\ \A k \in 1..Len(last.trace) :
           (last.trace[k].parser = "directive" /\ IsTableLine(LineAt(last.trace[k]))) =>
               /\ ~last.trace[k].matched
               /\ last.trace[k].after = last.trace[k].before
               /\ k < Len(last.trace)
               /\ last.trace[k + 1].parser = "tableDirective"
               /\ last.trace[k + 1].before = last.trace[k].before
    /\ (last.start >= 0 /\ IsTableLine(lines[last.start + 1])) =>
           last.node.type # "directive"

\* the first call of parseBlock was on a csv-table line: the directive parser
\* returned none and the table directive parser returned the Table
C29_Witness ==
    /\ TableReturned
    /\ NameOfLine(lines[1]) = N_csv_table
    /\ \E k \in 1..(Len(last.trace) - 1) :
           /\ last.trace[k].parser = "directive"
           /\ ~last.trace[k].matched
           /\ last.trace[k].after = 0
           /\ last.trace[k + 1].parser = "tableDirective"
           /\ last.trace[k + 1].matched


----------------------------------------------------------------------------
(* Recursion of the parse: the sub-parses the construct parsers start      *)

\* the first line of every construct that parses its content with a parser
\* of its own: admonition, container, card, dropdown, directive, comment,
\* tabs, grid, csv-table, list item and definition
RecursionOpenings ==
    {<<".","."," ","n","o","t","e",":",":">>,
     <<".","."," ","c","o","n","t","a","i","n","e","r",":",":"," ","c">>,
     <<".","."," ","c","a","r","d",":",":"," ","T">>,
     <<".","."," ","d","r","o","p","d","o","w","n",":",":"," ","T">>,
     <<".","."," ","t","o","p","i","c",":",":"," ","T">>,
     <<".","."," ","c">>,
     <<".","."," ","t","a","b","s",":",":">>,
     <<".","."," ","g","r","i","d",":",":"," ","1">>,
     <<".","."," ","c","s","v","-","t","a","b","l","e",":",":">>,
     <<"-"," ","a">>,
     <<"T">>}

\* content lines: a csv line, a tab, a grid item, a more indented line and an
\* empty line
RecursionPool ==
    {<<" "," "," ","a",",","b">>,
     <<" "," "," ",".","."," ","t","a","b",":",":"," ","T">>,
     <<" "," "," ",".","."," ","g","r","i","d","-","i","t","e","m",":",":">>,
     <<" "," "," "," "," "," ","d">>,
     <<>>}

\* a grid table of one content line
RecursionGridTable == <<<<"+","-","+","-","+">>, <<"|","a","|","b","|">>, <<"+","-","+","-","+">>>>

\* the rows of a list-table: the first cell of a row, a further cell
RecursionRowPool ==
    {<<" "," "," ","*"," ","-"," ","a">>,
     <<" "," "," "," "," ","-"," ","b">>,
     <<>>}

\* a list in the body of an admonition and of a card
RecursionListDocs ==
    {<<o, <<" "," "," ","-"," ","a">>>> : o \in {<<".","."," ","n","o","t","e",":",":">>,
                                        <<".","."," ","c","a","r","d",":",":"," ","T">>}}

RecursionDocs ==
    {<<o>> \o b : o \in RecursionOpenings, b \in Docs(RecursionPool, MaxLines)}
    \cup {<<<<".","."," ","l","i","s","t","-","t","a","b","l","e",":",":">>>> \o b : b \in Docs(RecursionRowPool, MaxLines)}
    \cup RecursionListDocs
    \cup {RecursionGridTable}

RecursionInit == InitOf(RecursionDocs)

RecursionSpec == RecursionInit /\ [][Next]_vars

\* C30: recursion is well-founded. Every sub-parse a construct parser starts
\* runs on a text strictly shorter than the text of the parse that started
\* it, at every depth of nesting: no call of parseBlock ends with the status
\* that marks a sub-parse of a text that is not shorter. The sub-parse has a
\* cursor of its own (it is a function of its text alone), and the parent's
\* cursor after the construct is the end of the construct's lines.
C30_RecursionWellFounded ==
    last.start >= 0 => last.st # "notShorter"

\* the sizes of the texts on one path of sub-parses of a node: the list item
\* in the body of an admonition
C30_Witness ==
    /\ lines = <<<<".","."," ","n","o","t","e",":",":">>, <<" "," "," ","-"," ","a">>>>
    /\ last.start = 0 /\ last.st = "ok" /\ last.idx = 2
    /\ last.node.type = "admonition"
    /\ Len(last.node.children) = 1
    /\ last.node.children[1].type = "list"
    /\ last.node.children[1].children[1].type = "list_item"
    /\ last.node.children[1].children[1].children # <<>>
    /\ TextSize(<<<<"a">>>>) < TextSize(dedent(<<<<" "," "," ","-"," ","a">>>>))
    /\ TextSize(dedent(<<<<" "," "," ","-"," ","a">>>>)) < TextSize(lines)

=============================================================================
